---- MODULE Spec2Model ----
(***************************************************************************)
(* tg-blobsync reconciliation engine: the Differ (DiffPush, DiffPull,      *)
(* shouldUpdate), the Scanner's remote de-duplication and the Executor     *)
(* (Execute, upload, download, deleteRemote, deleteLocal) running its      *)
(* transfers under an errgroup with a worker limit.                        *)
(*                                                                         *)
(* Spec      a whole push or pull run: scan, diff, Execute, scan again.    *)
(* SpecDiff  the Differ alone over inventories drawn from small sets.      *)
(* SpecRetry one call of retry.WithRetry over scripted operations.         *)
(* SpecExec  Execute on plans built by its caller.                         *)
(* SpecExecFair  SpecExec with the fairness of Execute's own steps.        *)
(* SpecScan  the Scanner with a scope, followed by the Differ.             *)
(* SpecPush  one call of Synchronizer.Push.                                *)
(***************************************************************************)
EXTENDS Integers, Sequences, FiniteSets, TLC

VARIABLES
    push,             \* one call of Synchronizer.Push: its shared err and its upload tasks
    scanner,          \* the Scanner: its scope, and the listings its collaborators return
    retry,            \* one call of retry.WithRetry: its arguments and its progress
    workersArg,       \* the worker count given to NewExecutor
    mode,             \* "push" | "pull": which Diff entry point the run uses
    skipMD5,          \* differ.skipMD5: TRUE = (modTime, size) comparison
    workers,          \* executor.workers after NewExecutor's clamp
    uiWired,          \* executor.ui != nil
    localFS,          \* the local tree: path -> file record or NoFile
    store,            \* the remote store: set of messages (RemoteFile records)
    nextMsgID,        \* id the store gives to the next uploaded message
    invLocal,         \* map[string]LocalFile given to the Differ
    invRemote,        \* map[string]RemoteFile given to the Differ
    plan,             \* the SyncPlan consumed by Execute
    plan2,            \* the plan of the second diff (re-run)
    pc,               \* position of the main goroutine
    nextTask,         \* index in transferTasks of the next item of the loop
    task,             \* per transfer task: its position, attempt and error
    deleteIdx,        \* index in deleteTasks of the next deletion
    callerCancelled,  \* the caller's ctx is done
    groupErr,         \* errgroup's first error: "none" | "error" | "cancelled"
    result,           \* what Execute returned: "none" | "nil" | "error" | "cancelled"
    hist              \* history of collaborator calls, kept for the properties

vars == <<push, scanner, retry, workersArg, mode, skipMD5, workers, uiWired, localFS, store, nextMsgID, invLocal,
          invRemote, plan, plan2, pc, nextTask, task, deleteIdx,
          callerCancelled, groupErr, result, hist>>

----------------------------------------------------------------------------
(* Bounds of the model *)

NumPaths == 2
MaxWorkers == 2
MaxStreamed == 1
MaxItems == 2
MaxListing == 3

PathNames == <<"a.txt", "b.txt", "c.txt", "d.txt">>
Paths == {PathNames[i] : i \in 1..NumPaths}

----------------------------------------------------------------------------
(* Domain entities: internal/domain/entity.go *)

Nil == [nil |-> TRUE]

ActionUpload == "UPLOAD"
ActionDownload == "DOWNLOAD"
ActionDeleteRemote == "DELETE_REMOTE"
ActionDeleteLocal == "DELETE_LOCAL"

EmptyFileFlag == "EMPTY_FILE"

LocalFile(path, checksum, modTime, size) ==
    [Path |-> path, Checksum |-> checksum, ModTime |-> modTime, Size |-> size]

FileMeta(path, checksum, modTime, flags) ==
    [Path |-> path, Checksum |-> checksum, ModTime |-> modTime, Flags |-> flags]

RemoteFile(meta, messageID, size) ==
    [Meta |-> meta, MessageID |-> messageID, Size |-> size]

SyncItem(path, action, localFile, remoteFile, reason) ==
    [Path |-> path, Action |-> action, LocalFile |-> localFile,
     RemoteFile |-> remoteFile, Reason |-> reason]

SyncSummary(toUpload, toDownload, toUpdate, toDelete, total) ==
    [ToUpload |-> toUpload, ToDownload |-> toDownload, ToUpdate |-> toUpdate,
     ToDelete |-> toDelete, Total |-> total]

ZeroSummary == SyncSummary(0, 0, 0, 0, 0)

SyncPlan(items, summary) == [Items |-> items, Summary |-> summary]

EmptyPlan == SyncPlan(<<>>, ZeroSummary)

\* All enumerations of a finite set: the orders in which Go may range over a map.
Orders(S) ==
    {s \in [1..Cardinality(S) -> S] : \A i, j \in DOMAIN s : i # j => s[i] # s[j]}

----------------------------------------------------------------------------
(* Differ: differ.shouldUpdate, differ.DiffPush, differ.DiffPull *)

\* A shouldUpdate that compares the stored blob size, EMPTY_FILE or not.
ShouldUpdateIgnoringFlag(skip, local, remote) ==
    IF skip
    THEN remote.Meta.ModTime # local.ModTime \/ remote.Size # local.Size
    ELSE remote.Meta.Checksum # local.Checksum

\* A shouldUpdate that compares the checksum under both policies.
ShouldUpdateAlwaysHash(skip, local, remote) ==
    remote.Meta.Checksum # local.Checksum

ShouldUpdate(skip, local, remote) ==
    IF skip
    THEN LET remoteSize == IF remote.Meta.Flags = EmptyFileFlag THEN 0 ELSE remote.Size
         IN  remote.Meta.ModTime # local.ModTime \/ remoteSize # local.Size
    ELSE remote.Meta.Checksum # local.Checksum

\* A DiffPush loop over local that counts a changed path as a new one.
PushLocalStepMiscount(skip, path, local, remote, acc) ==
    LET localFile == local[path]
        exists == path \in DOMAIN remote
    IN  IF ~exists
        THEN [items |-> Append(acc.items,
                          SyncItem(path, ActionUpload, localFile, Nil, "New file")),
              summary |-> [acc.summary EXCEPT !.ToUpload = @ + 1]]
        ELSE IF ShouldUpdate(skip, localFile, remote[path])
             THEN [items |-> Append(acc.items,
                               SyncItem(path, ActionUpload, localFile, remote[path],
                                        "Changed")),
                   summary |-> [acc.summary EXCEPT !.ToUpload = @ + 1]]
             ELSE acc

\* One iteration of DiffPush's loop over local: acc is (items, summary).
PushLocalStep(skip, path, local, remote, acc) ==
    LET localFile == local[path]
        exists == path \in DOMAIN remote
    IN  IF ~exists
        THEN [items |-> Append(acc.items,
                          SyncItem(path, ActionUpload, localFile, Nil, "New file")),
              summary |-> [acc.summary EXCEPT !.ToUpload = @ + 1]]
        ELSE IF ShouldUpdate(skip, localFile, remote[path])
             THEN [items |-> Append(acc.items,
                               SyncItem(path, ActionUpload, localFile, remote[path],
                                        "Changed")),
                   summary |-> [acc.summary EXCEPT !.ToUpdate = @ + 1]]
             ELSE acc

\* A DiffPush loop over remote that also schedules paths still present locally.
PushRemoteStepAll(path, local, remote, acc) ==
    [items |-> Append(acc.items,
                 SyncItem(path, ActionDeleteRemote, Nil, remote[path],
                          "Deleted locally")),
     summary |-> [acc.summary EXCEPT !.ToDelete = @ + 1]]

\* A DiffPush loop over remote whose items all carry the entry visited last.
PushRemoteStepShared(path, local, remote, acc) ==
    LET last == CHOOSE q \in DOMAIN remote :
                    \A r \in DOMAIN remote : remote[r].MessageID <= remote[q].MessageID
    IN  IF path \notin DOMAIN local
        THEN [items |-> Append(acc.items,
                          SyncItem(path, ActionDeleteRemote, Nil, remote[last],
                                   "Deleted locally")),
              summary |-> [acc.summary EXCEPT !.ToDelete = @ + 1]]
        ELSE acc

\* One iteration of DiffPush's loop over remote.
PushRemoteStep(path, local, remote, acc) ==
    IF path \notin DOMAIN local
    THEN [items |-> Append(acc.items,
                      SyncItem(path, ActionDeleteRemote, Nil, remote[path],
                               "Deleted locally")),
          summary |-> [acc.summary EXCEPT !.ToDelete = @ + 1]]
    ELSE acc

RECURSIVE PushLocalLoop(_, _, _, _, _)
PushLocalLoop(skip, order, local, remote, acc) ==
    IF order = <<>> THEN acc
    ELSE PushLocalLoop(skip, Tail(order), local, remote,
                       PushLocalStep(skip, Head(order), local, remote, acc))

RECURSIVE PushRemoteLoop(_, _, _, _)
PushRemoteLoop(order, local, remote, acc) ==
    IF order = <<>> THEN acc
    ELSE PushRemoteLoop(Tail(order), local, remote,
                        PushRemoteStep(Head(order), local, remote, acc))

\* lorder, rorder: the orders in which the two range loops visit the maps.
DiffPush(skip, local, remote, lorder, rorder) ==
    LET a1 == PushLocalLoop(skip, lorder, local, remote,
                            [items |-> <<>>, summary |-> ZeroSummary])
        a2 == PushRemoteLoop(rorder, local, remote, a1)
    IN  SyncPlan(a2.items, [a2.summary EXCEPT !.Total = Len(a2.items)])

\* A DiffPull loop over remote that leaves localFile unset on a changed path.
PullRemoteStepNoLocal(skip, path, local, remote, acc) ==
    LET remoteFile == remote[path]
        exists == path \in DOMAIN local
    IN  IF ~exists
        THEN [items |-> Append(acc.items,
                          SyncItem(path, ActionDownload, Nil, remoteFile,
                                   "New remote file")),
              summary |-> [acc.summary EXCEPT !.ToDownload = @ + 1]]
        ELSE IF ShouldUpdate(skip, local[path], remoteFile)
             THEN [items |-> Append(acc.items,
                               SyncItem(path, ActionDownload, Nil, remoteFile,
                                        "Changed remote")),
                   summary |-> [acc.summary EXCEPT !.ToUpdate = @ + 1]]
             ELSE acc

\* One iteration of DiffPull's loop over remote.
PullRemoteStep(skip, path, local, remote, acc) ==
    LET remoteFile == remote[path]
        exists == path \in DOMAIN local
    IN  IF ~exists
        THEN [items |-> Append(acc.items,
                          SyncItem(path, ActionDownload, Nil, remoteFile,
                                   "New remote file")),
              summary |-> [acc.summary EXCEPT !.ToDownload = @ + 1]]
        ELSE IF ShouldUpdate(skip, local[path], remoteFile)
             THEN [items |-> Append(acc.items,
                               SyncItem(path, ActionDownload, local[path], remoteFile,
                                        "Changed remote")),
                   summary |-> [acc.summary EXCEPT !.ToUpdate = @ + 1]]
             ELSE acc

\* A DiffPull loop over local that also schedules paths still present remotely.
PullLocalStepAll(path, local, remote, acc) ==
    [items |-> Append(acc.items,
                 SyncItem(path, ActionDeleteLocal, local[path], Nil,
                          "Deleted remotely")),
     summary |-> [acc.summary EXCEPT !.ToDelete = @ + 1]]

\* One iteration of DiffPull's loop over local.
PullLocalStep(path, local, remote, acc) ==
    IF path \notin DOMAIN remote
    THEN [items |-> Append(acc.items,
                      SyncItem(path, ActionDeleteLocal, local[path], Nil,
                               "Deleted remotely")),
          summary |-> [acc.summary EXCEPT !.ToDelete = @ + 1]]
    ELSE acc

RECURSIVE PullRemoteLoop(_, _, _, _, _)
PullRemoteLoop(skip, order, local, remote, acc) ==
    IF order = <<>> THEN acc
    ELSE PullRemoteLoop(skip, Tail(order), local, remote,
                        PullRemoteStep(skip, Head(order), local, remote, acc))

RECURSIVE PullLocalLoop(_, _, _, _)
PullLocalLoop(order, local, remote, acc) ==
    IF order = <<>> THEN acc
    ELSE PullLocalLoop(Tail(order), local, remote,
                       PullLocalStep(Head(order), local, remote, acc))

DiffPull(skip, local, remote, lorder, rorder) ==
    LET a1 == PullRemoteLoop(skip, rorder, local, remote,
                             [items |-> <<>>, summary |-> ZeroSummary])
        a2 == PullLocalLoop(lorder, local, remote, a1)
    IN  SyncPlan(a2.items, [a2.summary EXCEPT !.Total = Len(a2.items)])

----------------------------------------------------------------------------
(* Remote store and local filesystem, as the engine sees them *)

\* The documented form of an empty file in the store: a 1-byte placeholder
\* whose caption carries path, checksum, modTime and the EMPTY_FILE flag.
EmptyPlaceholder(file, id) ==
    RemoteFile(FileMeta(file.Path, file.Checksum, file.ModTime, EmptyFileFlag), id, 1)

\* What UploadFile leaves in the store for a local file: a document of the
\* file's bytes (none for an empty file) whose caption carries path, checksum
\* and modTime, and no flag.
UploadedEntry(file, id) ==
    RemoteFile(FileMeta(file.Path, file.Checksum, file.ModTime, ""), id, file.Size)

\* The inventory with path p bound to v / without path p.
Put(inv, p, v) == (p :> v) @@ inv
Drop(inv, p) == [q \in DOMAIN inv \ {p} |-> inv[q]]

\* The total map f (Nil where a path has no entry) as a Go map.
AsMap(f) == [p \in {q \in DOMAIN f : f[q] # Nil} |-> f[p]]

----------------------------------------------------------------------------
(* Simulated execution of a plan on an inventory (testable properties) *)

SimulatedUpload(file, id) ==
    IF file.Size = 0
    THEN EmptyPlaceholder(file, id)
    ELSE RemoteFile(FileMeta(file.Path, file.Checksum, file.ModTime, ""), id, file.Size)

SimulatedDownload(remoteFile) ==
    LocalFile(remoteFile.Meta.Path, remoteFile.Meta.Checksum, remoteFile.Meta.ModTime,
              IF remoteFile.Meta.Flags = EmptyFileFlag THEN 0 ELSE remoteFile.Size)

RECURSIVE ApplyPushPlan(_, _, _)
ApplyPushPlan(items, remote, id) ==
    IF items = <<>> THEN remote
    ELSE LET item == Head(items)
         IN  IF item.Action = ActionUpload
             THEN ApplyPushPlan(Tail(items),
                                Put(remote, item.Path, SimulatedUpload(item.LocalFile, id)),
                                id + 1)
             ELSE IF item.Action = ActionDeleteRemote
             THEN ApplyPushPlan(Tail(items), Drop(remote, item.Path), id)
             ELSE ApplyPushPlan(Tail(items), remote, id)

RECURSIVE ApplyPullPlan(_, _)
ApplyPullPlan(items, local) ==
    IF items = <<>> THEN local
    ELSE LET item == Head(items)
         IN  IF item.Action = ActionDownload
             THEN ApplyPullPlan(Tail(items),
                                Put(local, item.Path, SimulatedDownload(item.RemoteFile)))
             ELSE IF item.Action = ActionDeleteLocal
             THEN ApplyPullPlan(Tail(items), Drop(local, item.Path))
             ELSE ApplyPullPlan(Tail(items), local)

----------------------------------------------------------------------------
(* SpecDiff: the Differ over inventories drawn from small sets *)

LocalVariants(p) ==
    {LocalFile(p, v[1], v[2], v[3]) :
        v \in {<<"H1", 100, 10>>, <<"H0", 100, 0>>}}

RemoteVariants(p, id) ==
    {RemoteFile(FileMeta(p, v[1], v[2], v[4]), id, v[3]) :
        v \in {<<"H1", 100, 10, "">>, <<"H2", 100, 10, "">>, <<"H1", 200, 10, "">>,
               <<"H0", 100, 1, EmptyFileFlag>>, <<"H0", 100, 1, "">>}}

PathIndex(p) == CHOOSE i \in 1..NumPaths : PathNames[i] = p

LocalInventories ==
    {AsMap(f) : f \in {g \in [Paths -> {Nil} \cup UNION {LocalVariants(p) : p \in Paths}] :
                          \A p \in Paths : g[p] = Nil \/ g[p] \in LocalVariants(p)}}

RemoteInventories ==
    {AsMap(f) : f \in {g \in [Paths -> {Nil} \cup
                                UNION {RemoteVariants(p, PathIndex(p)) : p \in Paths}] :
                          \A p \in Paths :
                              g[p] = Nil \/ g[p] \in RemoteVariants(p, PathIndex(p))}}

\* The scenario of the specification: local {a.txt H1, b.txt H2} against
\* remote {a.txt H1, c.txt H3}.
ScenarioLocal ==
    [p \in {"a.txt", "b.txt"} |->
        LocalFile(p, IF p = "a.txt" THEN "H1" ELSE "H2", 100, 10)]

ScenarioRemote ==
    [p \in {"a.txt", "c.txt"} |->
        RemoteFile(FileMeta(p, IF p = "a.txt" THEN "H1" ELSE "H3", 100, ""),
                   IF p = "a.txt" THEN 1 ELSE 2, 10)]

InventoryPairs ==
    (LocalInventories \X RemoteInventories) \cup {<<ScenarioLocal, ScenarioRemote>>}

NoTasks == <<>>
NoScanner == [subDir |-> <<>>]
NoHist ==
    [confirm |-> "none", ui |-> {}, deleted |-> <<>>, deleteFailed |-> {},
     stale |-> {}, listed |-> <<>>, setModTime |-> {}, uiWaits |-> 0,
     midCancel |-> FALSE]

\* No call of WithRetry is being followed.
NoRetry == [pc |-> "idle"]
NoPush == [err |-> "none"]

InitDiff ==
    /\ mode \in {"push", "pull"}
    /\ skipMD5 \in BOOLEAN
    /\ \E pair \in InventoryPairs : invLocal = pair[1] /\ invRemote = pair[2]
    /\ retry = NoRetry
    /\ scanner = NoScanner
    /\ push = NoPush
    /\ workersArg = 1
    /\ workers = 1
    /\ uiWired = FALSE
    /\ localFS = [p \in Paths |-> Nil]
    /\ store = {}
    /\ nextMsgID = NumPaths + 1
    /\ plan = EmptyPlan
    /\ plan2 = EmptyPlan
    /\ pc = "scanned"
    /\ nextTask = 1
    /\ task = NoTasks
    /\ deleteIdx = 1
    /\ callerCancelled = FALSE
    /\ groupErr = "none"
    /\ result = "none"
    /\ hist = NoHist

Diff(m, skip, local, remote, lorder, rorder) ==
    IF m = "push" THEN DiffPush(skip, local, remote, lorder, rorder)
    ELSE DiffPull(skip, local, remote, lorder, rorder)

DiffStep ==
    /\ pc = "scanned"
    /\ \E lorder \in Orders(DOMAIN invLocal), rorder \in Orders(DOMAIN invRemote) :
          plan' = Diff(mode, skipMD5, invLocal, invRemote, lorder, rorder)
    /\ pc' = "planned"
    /\ UNCHANGED <<push, scanner, retry, workersArg, mode, skipMD5, workers, uiWired,
                   localFS, store, nextMsgID, invLocal, invRemote, plan2,
                   nextTask, task, deleteIdx, callerCancelled, groupErr,
                   result, hist>>

SimulateStep ==
    /\ pc = "planned"
    /\ IF mode = "push"
       THEN /\ invRemote' = ApplyPushPlan(plan.Items, invRemote, nextMsgID)
            /\ invLocal' = invLocal
       ELSE /\ invLocal' = ApplyPullPlan(plan.Items, invLocal)
            /\ invRemote' = invRemote
    /\ pc' = "applied"
    /\ UNCHANGED <<push, scanner, retry, workersArg, mode, skipMD5, workers, uiWired,
                   localFS, store, nextMsgID, plan, plan2, nextTask, task,
                   deleteIdx, callerCancelled, groupErr, result, hist>>

RediffStep ==
    /\ pc = "applied"
    /\ \E lorder \in Orders(DOMAIN invLocal), rorder \in Orders(DOMAIN invRemote) :
          plan2' = Diff(mode, skipMD5, invLocal, invRemote, lorder, rorder)
    /\ pc' = "rediffed"
    /\ UNCHANGED <<push, scanner, retry, workersArg, mode, skipMD5, workers, uiWired,
                   localFS, store, nextMsgID, invLocal, invRemote, plan,
                   nextTask, task, deleteIdx, callerCancelled, groupErr,
                   result, hist>>

\* The inventories with their sides exchanged, each entry keeping its path and
\* its comparability keys (hash; modTime and effective size).
MirrorAsLocal(remote) ==
    [p \in DOMAIN remote |->
        LocalFile(p, remote[p].Meta.Checksum, remote[p].Meta.ModTime,
                  IF remote[p].Meta.Flags = EmptyFileFlag THEN 0 ELSE remote[p].Size)]

MirrorAsRemote(local) ==
    [p \in DOMAIN local |->
        RemoteFile(FileMeta(p, local[p].Checksum, local[p].ModTime, ""), 0, local[p].Size)]

\* The opposite diff on the exchanged inventories: DiffPull(B, A) after
\* DiffPush(A, B), DiffPush(B, A) after DiffPull(A, B).
MirrorStep ==
    /\ pc = "planned"
    /\ LET local == MirrorAsLocal(invRemote)
           remote == MirrorAsRemote(invLocal)
       IN  \E lorder \in Orders(DOMAIN local), rorder \in Orders(DOMAIN remote) :
              plan2' = Diff(IF mode = "push" THEN "pull" ELSE "push", skipMD5,
                            local, remote, lorder, rorder)
    /\ pc' = "mirrored"
    /\ UNCHANGED <<push, scanner, retry, workersArg, mode, skipMD5, workers, uiWired,
                   localFS, store, nextMsgID, invLocal, invRemote, plan,
                   nextTask, task, deleteIdx, callerCancelled, groupErr,
                   result, hist>>

NextDiff == DiffStep \/ SimulateStep \/ RediffStep \/ MirrorStep

SpecDiff == InitDiff /\ [][NextDiff]_vars

----------------------------------------------------------------------------
(* Scanner: scanner.ScanLocal, scanner.ScanRemote *)

FileOnDisk(checksum, modTime, size) ==
    [Checksum |-> checksum, ModTime |-> modTime, Size |-> size]

\* fs.ListFiles seen through ScanLocal: one LocalFile per file of the tree.
ScanLocal(fs) ==
    AsMap([p \in DOMAIN fs |->
              IF fs[p] = Nil THEN Nil
              ELSE LocalFile(p, fs[p].Checksum, fs[p].ModTime, fs[p].Size)])

\* storage.ListFiles: the topic's history, newest message first.
RECURSIVE Listing(_)
Listing(msgs) ==
    IF msgs = {} THEN <<>>
    ELSE LET newest == CHOOSE m \in msgs : \A o \in msgs : o.MessageID <= m.MessageID
         IN  <<newest>> \o Listing(msgs \ {newest})

\* ScanRemote's loop: the first entry seen for a path is kept.
RECURSIVE ScanRemoteLoop(_, _)
ScanRemoteLoop(listing, acc) ==
    IF listing = <<>> THEN acc
    ELSE LET f == Head(listing)
             path == f.Meta.Path
         IN  ScanRemoteLoop(Tail(listing),
                            IF path \in DOMAIN acc THEN acc ELSE Put(acc, path, f))

ScanRemote(listing) == ScanRemoteLoop(listing, <<>>)

\* The scanner with a scope. Here a path is the sequence of its characters,
\* and sep is os.PathSeparator of the platform the program was built for.

\* strings.HasPrefix(s, prefix)
HasPrefix(s, prefix) ==
    Len(s) >= Len(prefix) /\ SubSeq(s, 1, Len(prefix)) = prefix

\* filepath.ToSlash(path)
ToSlash(sep, path) == [k \in 1..Len(path) |-> IF path[k] = sep THEN "/" ELSE path[k]]

\* strings.Trim(s, "/")
RECURSIVE TrimLeft(_)
TrimLeft(s) == IF s # <<>> /\ Head(s) = "/" THEN TrimLeft(Tail(s)) ELSE s

RECURSIVE TrimRight(_)
TrimRight(s) ==
    IF s # <<>> /\ s[Len(s)] = "/" THEN TrimRight(SubSeq(s, 1, Len(s) - 1)) ELSE s

Trim(s) == TrimRight(TrimLeft(s))

\* NewScanner: the subDir the scanner keeps.
NewScanner(sep, subDir) == Trim(ToSlash(sep, subDir))

\* A scope test that accepts every path the scope is a prefix of.
RetainedByPrefix(subDir, path) ==
    IF subDir # <<>> THEN HasPrefix(path, subDir) ELSE TRUE

\* The scope test of ScanLocal and ScanRemote: FALSE where the loop continues.
Retained(subDir, path) ==
    IF subDir # <<>>
    THEN ~(~HasPrefix(path, subDir \o <<"/">>) /\ path # subDir)
    ELSE TRUE

\* ScanLocal's loop over the files of fs.ListFiles.
RECURSIVE ScanLocalScoped(_, _, _, _)
ScanLocalScoped(sep, subDir, files, acc) ==
    IF files = <<>> THEN acc
    ELSE LET f == Head(files)
             path == ToSlash(sep, f.Path)
         IN  ScanLocalScoped(sep, subDir, Tail(files),
                             IF Retained(subDir, path) THEN Put(acc, path, f)
                             ELSE acc)

\* A loop over the listing in which a later entry replaces an earlier one.
RECURSIVE ScanRemoteScopedKeepLast(_, _, _, _)
ScanRemoteScopedKeepLast(sep, subDir, files, acc) ==
    IF files = <<>> THEN acc
    ELSE LET f == Head(files)
             path == ToSlash(sep, f.Meta.Path)
         IN  ScanRemoteScopedKeepLast(sep, subDir, Tail(files),
                                      IF Retained(subDir, path) THEN Put(acc, path, f)
                                      ELSE acc)

\* ScanRemote's loop over the files of storage.ListFiles.
RECURSIVE ScanRemoteScoped(_, _, _, _)
ScanRemoteScoped(sep, subDir, files, acc) ==
    IF files = <<>> THEN acc
    ELSE LET f == Head(files)
             path == ToSlash(sep, f.Meta.Path)
         IN  ScanRemoteScoped(sep, subDir, Tail(files),
                              IF Retained(subDir, path) /\ path \notin DOMAIN acc
                              THEN Put(acc, path, f)
                              ELSE acc)

\* What a scan returns: the calls it made of its collaborator, the inventory
\* (Nil for a nil map, NonNilMap(m) for a map made by the scan) and the error
\* ("nil" for none).
NonNilMap(m) == [entries |-> m]
ScanReturn(calls, inv, err) == [calls |-> calls, inv |-> inv, err |-> err]
NotScanned == ScanReturn(<<>>, Nil, "none")

\* A ScanLocal that lists the tree although EnsureDir failed.
ScanLocalAnyway(sep, subDir, files, ensureOK, listOK) ==
    IF ~listOK
    THEN ScanReturn(<<"EnsureDir", "ListFiles">>, Nil, "failed to list local files")
    ELSE ScanReturn(<<"EnsureDir", "ListFiles">>,
                    NonNilMap(ScanLocalScoped(sep, subDir, files, <<>>)),
                    IF ensureOK THEN "nil" ELSE "failed to ensure root dir")

\* ScanLocal: EnsureDir, then ListFiles, then the loop; files is what
\* ListFiles returns when it succeeds.
ScanLocalCall(sep, subDir, files, ensureOK, listOK) ==
    IF ~ensureOK
    THEN ScanReturn(<<"EnsureDir">>, Nil, "failed to ensure root dir")
    ELSE IF ~listOK
    THEN ScanReturn(<<"EnsureDir", "ListFiles">>, Nil, "failed to list local files")
    ELSE ScanReturn(<<"EnsureDir", "ListFiles">>,
                    NonNilMap(ScanLocalScoped(sep, subDir, files, <<>>)), "nil")

\* ScanRemote: storage.ListFiles, then the loop.
ScanRemoteCall(sep, subDir, listing, listOK) ==
    IF ~listOK
    THEN ScanReturn(<<"ListFiles">>, Nil, "failed to list remote files")
    ELSE ScanReturn(<<"ListFiles">>,
                    NonNilMap(ScanRemoteScoped(sep, subDir, listing, <<>>)), "nil")

----------------------------------------------------------------------------
(* Errors: what an operation returns, and how WithRetry classifies it *)

\* An error is its root cause (kind) and whether fmt.Errorf("...: %w", err)
\* wraps that cause.
OpNil == [kind |-> "nil", wrapped |-> FALSE]
OtherError == [kind |-> "other", wrapped |-> FALSE]
CtxCanceled == [kind |-> "Canceled", wrapped |-> FALSE]
Wrap(err) == [err EXCEPT !.wrapped = TRUE]

\* An errors.Is that does not look inside a wrapping error.
IsCancellationUnwrapped(err) ==
    err.kind \in {"Canceled", "DeadlineExceeded"} /\ ~err.wrapped

\* errors.Is(err, context.Canceled) || errors.Is(err, context.DeadlineExceeded)
IsCancellation(err) == err.kind \in {"Canceled", "DeadlineExceeded"}

----------------------------------------------------------------------------
(* Executor: executor.Execute and the tasks it runs *)

MaxRetries == 5

\* NewExecutor: the worker count the executor keeps.
NewExecutor(n) == IF n <= 0 THEN 1 ELSE n

IsDelete(item) == item.Action \in {ActionDeleteRemote, ActionDeleteLocal}
IsTransfer(item) == ~IsDelete(item)

TransferTasks == SelectSeq(plan.Items, IsTransfer)
DeleteTasks == SelectSeq(plan.Items, IsDelete)

Running(st) == st \in {"op", "stale", "write", "wait"}
Finished(st) == st \in {"ok", "error", "cancelled"}

Active == Cardinality({i \in DOMAIN task : Running(task[i].st)})

\* gCtx.Err() != nil: the caller's ctx is done, or a task returned an error.
GCtxErr == callerCancelled \/ groupErr # "none"

\* errgroup: the first error returned by a task is kept and cancels gCtx.
TaskFails(i, kind, n) ==
    /\ task' = [task EXCEPT ![i].st = kind, ![i].calls = @ + n]
    /\ groupErr' = IF groupErr = "none" THEN kind ELSE groupErr

\* A local file as WriteFile leaves it: written whole, or cut short.
WrittenFile(remoteFile) ==
    FileOnDisk(remoteFile.Meta.Checksum, 999, remoteFile.Size)
TornFile(k) == FileOnDisk(IF k = 0 THEN "H0" ELSE "torn", 999, k)
EmptyFile == FileOnDisk("H0", 999, 0)
TornSizes(n) == {0} \cup (IF n > 1 THEN {n - 1} ELSE {})

\* An Execute that goes on whatever ConfirmSync answered.
ExecuteBeginUnconfirmed ==
    /\ pc = "planned"
    /\ IF plan.Summary.Total = 0
       THEN /\ result' = "nil" /\ pc' = "done"
            /\ UNCHANGED <<task, hist>>
       ELSE \E answer \in (IF uiWired THEN {"yes", "no", "error"} ELSE {"none"}) :
               /\ hist' = [hist EXCEPT !.confirm = answer,
                                       !.ui = IF answer = "yes"
                                              THEN {"SetTotalFiles"} ELSE {}]
               /\ IF FALSE
                  THEN result' = "error" /\ pc' = "done" /\ task' = task
                  ELSE /\ result' = result
                       /\ pc' = "loop"
                       /\ task' = [i \in 1..Len(TransferTasks) |->
                                      [st |-> "pending", attempt |-> 0, calls |-> 0]]
    /\ UNCHANGED <<push, scanner, retry, workersArg, mode, skipMD5, workers, uiWired,
                   localFS, store, nextMsgID, invLocal, invRemote, plan,
                   plan2, nextTask, deleteIdx, callerCancelled, groupErr>>

\* An Execute that asks for confirmation of an empty plan too.
ExecuteBeginAsksAlways ==
    /\ pc = "planned"
    /\ IF FALSE
       THEN /\ result' = "nil" /\ pc' = "done"
            /\ UNCHANGED <<task, hist>>
       ELSE \E answer \in (IF uiWired THEN {"yes", "no", "error"} ELSE {"none"}) :
               /\ hist' = [hist EXCEPT !.confirm = answer,
                                       !.ui = IF answer = "yes"
                                              THEN {"SetTotalFiles"} ELSE {}]
               /\ IF answer = "error"
                  THEN result' = "error" /\ pc' = "done" /\ task' = task
                  ELSE IF answer = "no"
                  THEN result' = "nil" /\ pc' = "done" /\ task' = task
                  ELSE /\ result' = result
                       /\ pc' = "loop"
                       /\ task' = [i \in 1..Len(TransferTasks) |->
                                      [st |-> "pending", attempt |-> 0, calls |-> 0]]
    /\ UNCHANGED <<push, scanner, retry, workersArg, mode, skipMD5, workers, uiWired,
                   localFS, store, nextMsgID, invLocal, invRemote, plan,
                   plan2, nextTask, deleteIdx, callerCancelled, groupErr>>

ExecuteBegin ==
    /\ pc = "planned"
    /\ IF plan.Summary.Total = 0
       THEN /\ result' = "nil" /\ pc' = "done"
            /\ UNCHANGED <<task, hist>>
       ELSE \E answer \in (IF uiWired THEN {"yes", "no", "error"} ELSE {"none"}) :
               /\ hist' = [hist EXCEPT !.confirm = answer,
                                       !.ui = IF answer = "yes"
                                              THEN {"SetTotalFiles"} ELSE {}]
               /\ IF answer = "error"
                  THEN result' = "error" /\ pc' = "done" /\ task' = task
                  ELSE IF answer = "no"
                  THEN result' = "nil" /\ pc' = "done" /\ task' = task
                  ELSE /\ result' = result
                       /\ pc' = "loop"
                       /\ task' = [i \in 1..Len(TransferTasks) |->
                                      [st |-> "pending", attempt |-> 0, calls |-> 0]]
    /\ UNCHANGED <<push, scanner, retry, workersArg, mode, skipMD5, workers, uiWired,
                   localFS, store, nextMsgID, invLocal, invRemote, plan,
                   plan2, nextTask, deleteIdx, callerCancelled, groupErr>>

\* Top of the loop over transferTasks: leave it when gCtx is done.
LoopCheck ==
    /\ pc = "loop"
    /\ pc' = IF nextTask > Len(TransferTasks) \/ GCtxErr THEN "wait" ELSE "go"
    /\ UNCHANGED <<push, scanner, retry, workersArg, mode, skipMD5, workers, uiWired,
                   localFS, store, nextMsgID, invLocal, invRemote, plan,
                   plan2, nextTask, task, deleteIdx, callerCancelled,
                   groupErr, result, hist>>

\* A g.Go that starts the task without waiting for a worker slot.
GoUnlimited ==
    /\ pc = "go"
    /\ task' = [task EXCEPT ![nextTask] = [st |-> "op", attempt |-> 1, calls |-> 0]]
    /\ nextTask' = nextTask + 1
    /\ pc' = "loop"
    /\ UNCHANGED <<push, scanner, retry, workersArg, mode, skipMD5, workers, uiWired,
                   localFS, store, nextMsgID, invLocal, invRemote, plan,
                   plan2, deleteIdx, callerCancelled, groupErr, result, hist>>

\* g.Go: blocks until a worker slot is free, then starts the task.
Go ==
    /\ pc = "go"
    /\ Active < workers
    /\ task' = [task EXCEPT ![nextTask] = [st |-> "op", attempt |-> 1, calls |-> 0]]
    /\ nextTask' = nextTask + 1
    /\ pc' = "loop"
    /\ UNCHANGED <<push, scanner, retry, workersArg, mode, skipMD5, workers, uiWired,
                   localFS, store, nextMsgID, invLocal, invRemote, plan,
                   plan2, deleteIdx, callerCancelled, groupErr, result, hist>>

\* A WithRetry that gives up at the first failed attempt.
AttemptFailedOnce(i, err, n) ==
    TaskFails(i, IF IsCancellation(err) THEN "cancelled" ELSE "error", n)

\* WithRetry after operation returned err, having made n storage calls: a
\* cancellation is returned at once, any other error is retried after a wait
\* while attempts are left.
AttemptFailed(i, err, n) ==
    IF IsCancellation(err)
    THEN TaskFails(i, "cancelled", n)
    ELSE IF task[i].attempt < MaxRetries
    THEN /\ task' = [task EXCEPT ![i].st = "wait", ![i].calls = @ + n]
         /\ groupErr' = groupErr
    ELSE TaskFails(i, "error", n)

\* An upload that puts UploadFile under the retry policy of the downloads.
UploadCallRetried(i) ==
    LET item == TransferTasks[i] IN
    /\ pc \in {"loop", "go", "wait"}
    /\ task[i].st = "op"
    /\ item.Action = ActionUpload
    /\ IF item.LocalFile = Nil
       THEN TaskFails(i, "error", 0) /\ UNCHANGED <<store, nextMsgID>>
       ELSE IF GCtxErr
       THEN TaskFails(i, "cancelled", 1) /\ UNCHANGED <<store, nextMsgID>>
       ELSE \E ok \in BOOLEAN :
               IF ok
               THEN /\ store' = store \cup {UploadedEntry(item.LocalFile, nextMsgID)}
                    /\ nextMsgID' = nextMsgID + 1
                    /\ task' = [task EXCEPT ![i].st =
                                   IF item.RemoteFile # Nil THEN "stale" ELSE "ok",
                                             ![i].calls = @ + 1]
                    /\ groupErr' = groupErr
               ELSE AttemptFailed(i, Wrap(OtherError), 1)
                    /\ UNCHANGED <<store, nextMsgID>>
    /\ UNCHANGED <<push, scanner, retry, workersArg, mode, skipMD5, workers, uiWired,
                   localFS, invLocal, invRemote, plan, plan2, pc, nextTask,
                   deleteIdx, callerCancelled, result, hist>>

\* An upload that goes on to delete the old version when UploadFile failed.
UploadCallUnchecked(i) ==
    LET item == TransferTasks[i] IN
    /\ pc \in {"loop", "go", "wait"}
    /\ task[i].st = "op"
    /\ item.Action = ActionUpload
    /\ item.LocalFile # Nil
    /\ \E ok \in (IF GCtxErr THEN {FALSE} ELSE BOOLEAN) :
          /\ store' = IF ok THEN store \cup {UploadedEntry(item.LocalFile, nextMsgID)}
                      ELSE store
          /\ nextMsgID' = IF ok THEN nextMsgID + 1 ELSE nextMsgID
          /\ task' = [task EXCEPT ![i].st = IF item.RemoteFile # Nil THEN "stale" ELSE "ok",
                                   ![i].calls = @ + 1]
          /\ groupErr' = groupErr
    /\ UNCHANGED <<push, scanner, retry, workersArg, mode, skipMD5, workers, uiWired,
                   localFS, invLocal, invRemote, plan, plan2, pc, nextTask,
                   deleteIdx, callerCancelled, result, hist>>

\* upload, first half: the nil check and storage.UploadFile.
UploadCall(i) ==
    LET item == TransferTasks[i] IN
    /\ pc \in {"loop", "go", "wait"}
    /\ task[i].st = "op"
    /\ item.Action = ActionUpload
    /\ IF item.LocalFile = Nil
       THEN TaskFails(i, "error", 0) /\ UNCHANGED <<store, nextMsgID>>
       ELSE IF GCtxErr
       THEN TaskFails(i, "cancelled", 1) /\ UNCHANGED <<store, nextMsgID>>
       ELSE \E ok \in BOOLEAN :
               IF ok
               THEN /\ store' = store \cup {UploadedEntry(item.LocalFile, nextMsgID)}
                    /\ nextMsgID' = nextMsgID + 1
                    /\ task' = [task EXCEPT ![i].st =
                                   IF item.RemoteFile # Nil THEN "stale" ELSE "ok",
                                             ![i].calls = @ + 1]
                    /\ groupErr' = groupErr
               ELSE TaskFails(i, "error", 1) /\ UNCHANGED <<store, nextMsgID>>
    /\ UNCHANGED <<push, scanner, retry, workersArg, mode, skipMD5, workers, uiWired,
                   localFS, invLocal, invRemote, plan, plan2, pc, nextTask,
                   deleteIdx, callerCancelled, result, hist>>

\* upload, second half: the best-effort delete of the old version.
StaleDelete(i) ==
    LET item == TransferTasks[i] IN
    /\ pc \in {"loop", "go", "wait"}
    /\ task[i].st = "stale"
    /\ \E ok \in (IF GCtxErr THEN {FALSE} ELSE BOOLEAN) :
          store' = IF ok THEN {m \in store : m.MessageID # item.RemoteFile.MessageID}
                   ELSE store
    /\ task' = [task EXCEPT ![i].st = "ok"]
    /\ hist' = [hist EXCEPT !.stale = @ \cup {i}]
    /\ UNCHANGED <<push, scanner, retry, workersArg, mode, skipMD5, workers, uiWired,
                   localFS, nextMsgID, invLocal, invRemote, plan, plan2, pc,
                   nextTask, deleteIdx, callerCancelled, groupErr, result>>

\* A download that asks DownloadFile for the blob of every entry.
DownloadCallAlways(i) ==
    LET item == TransferTasks[i] IN
    /\ pc \in {"loop", "go", "wait"}
    /\ task[i].st = "op"
    /\ item.Action = ActionDownload
    /\ IF item.RemoteFile = Nil
       THEN TaskFails(i, "error", 0)
       ELSE \E err \in (IF GCtxErr THEN {CtxCanceled} ELSE {OpNil, OtherError}) :
               IF err = OpNil
               THEN /\ task' = [task EXCEPT ![i].st = "write", ![i].calls = @ + 1]
                    /\ groupErr' = groupErr
               ELSE AttemptFailed(i, Wrap(err), 1)
    /\ UNCHANGED <<push, scanner, retry, workersArg, mode, skipMD5, workers, uiWired,
                   localFS, store, nextMsgID, invLocal, invRemote, plan,
                   plan2, pc, nextTask, deleteIdx, callerCancelled, result,
                   hist>>

\* download: the nil check, then storage.DownloadFile of one attempt.
DownloadCall(i) ==
    LET item == TransferTasks[i] IN
    /\ pc \in {"loop", "go", "wait"}
    /\ task[i].st = "op"
    /\ item.Action = ActionDownload
    /\ IF item.RemoteFile = Nil THEN TRUE
       ELSE item.RemoteFile.Meta.Flags # EmptyFileFlag
    /\ IF item.RemoteFile = Nil
       THEN TaskFails(i, "error", 0)
       ELSE \E err \in (IF GCtxErr THEN {CtxCanceled} ELSE {OpNil, OtherError}) :
               IF err = OpNil
               THEN /\ task' = [task EXCEPT ![i].st = "write", ![i].calls = @ + 1]
                    /\ groupErr' = groupErr
               ELSE AttemptFailed(i, Wrap(err), 1)
    /\ UNCHANGED <<push, scanner, retry, workersArg, mode, skipMD5, workers, uiWired,
                   localFS, store, nextMsgID, invLocal, invRemote, plan,
                   plan2, pc, nextTask, deleteIdx, callerCancelled, result,
                   hist>>

\* A download whose attempt fails when fs.SetModTime fails.
WriteCallStrict(i) ==
    LET item == TransferTasks[i]
        rf == item.RemoteFile
        empty == rf.Meta.Flags = EmptyFileFlag
    IN
    /\ pc \in {"loop", "go", "wait"}
    /\ item.Action = ActionDownload
    /\ rf # Nil
    /\ \/ task[i].st = "write"
       \/ task[i].st = "op" /\ empty
    /\ \/ \* MkdirAll or os.Create fails: the file is untouched
          /\ localFS' = localFS
          /\ hist' = hist
          /\ AttemptFailed(i, Wrap(OtherError), 0)
       \/ \* the stream breaks after os.Create truncated the file
          /\ ~empty
          /\ \E k \in TornSizes(rf.Size) :
                localFS' = [localFS EXCEPT ![item.Path] = TornFile(k)]
          /\ hist' = hist
          /\ AttemptFailed(i, Wrap(IF GCtxErr THEN CtxCanceled ELSE OtherError), 0)
       \/ \* the file is written whole
          /\ empty \/ ~GCtxErr
          /\ \E setOK \in BOOLEAN :
                LET written == IF empty THEN EmptyFile ELSE WrittenFile(rf)
                    setCalled == empty \/ rf.Meta.ModTime > 0
                IN  /\ localFS' = [localFS EXCEPT ![item.Path] =
                                      IF setCalled /\ setOK
                                      THEN [written EXCEPT !.ModTime = rf.Meta.ModTime]
                                      ELSE written]
                    /\ hist' = IF setCalled
                               THEN [hist EXCEPT !.setModTime =
                                        @ \cup {<<item.Path, rf.Meta.ModTime>>}]
                               ELSE hist
          /\ IF localFS'[item.Path].ModTime # rf.Meta.ModTime
                /\ hist'.setModTime # hist.setModTime
             THEN AttemptFailed(i, Wrap(OtherError), 0)
             ELSE task' = [task EXCEPT ![i].st = "ok"] /\ groupErr' = groupErr
    /\ UNCHANGED <<push, scanner, retry, workersArg, mode, skipMD5, workers, uiWired, store,
                   nextMsgID, invLocal, invRemote, plan, plan2, pc, nextTask,
                   deleteIdx, callerCancelled, result>>

\* download: fs.WriteFile of one attempt (os.Create, then io.Copy of the
\* stream), followed on success by fs.SetModTime.
WriteCall(i) ==
    LET item == TransferTasks[i]
        rf == item.RemoteFile
        empty == rf.Meta.Flags = EmptyFileFlag
    IN
    /\ pc \in {"loop", "go", "wait"}
    /\ item.Action = ActionDownload
    /\ rf # Nil
    /\ \/ task[i].st = "write"
       \/ task[i].st = "op" /\ empty
    /\ \/ \* MkdirAll or os.Create fails: the file is untouched
          /\ localFS' = localFS
          /\ hist' = hist
          /\ AttemptFailed(i, Wrap(OtherError), 0)
       \/ \* the stream breaks after os.Create truncated the file
          /\ ~empty
          /\ \E k \in TornSizes(rf.Size) :
                localFS' = [localFS EXCEPT ![item.Path] = TornFile(k)]
          /\ hist' = hist
          /\ AttemptFailed(i, Wrap(IF GCtxErr THEN CtxCanceled ELSE OtherError), 0)
       \/ \* the file is written whole
          /\ empty \/ ~GCtxErr
          /\ \E setOK \in BOOLEAN :
                LET written == IF empty THEN EmptyFile ELSE WrittenFile(rf)
                    setCalled == empty \/ rf.Meta.ModTime > 0
                IN  /\ localFS' = [localFS EXCEPT ![item.Path] =
                                      IF setCalled /\ setOK
                                      THEN [written EXCEPT !.ModTime = rf.Meta.ModTime]
                                      ELSE written]
                    /\ hist' = IF setCalled
                               THEN [hist EXCEPT !.setModTime =
                                        @ \cup {<<item.Path, rf.Meta.ModTime>>}]
                               ELSE hist
          /\ task' = [task EXCEPT ![i].st = "ok"]
          /\ groupErr' = groupErr
    /\ UNCHANGED <<push, scanner, retry, workersArg, mode, skipMD5, workers, uiWired, store,
                   nextMsgID, invLocal, invRemote, plan, plan2, pc, nextTask,
                   deleteIdx, callerCancelled, result>>

\* WithRetry's backoff: the wait ends, or ctx.Done() ends it.
RetryWait(i) ==
    /\ pc \in {"loop", "go", "wait"}
    /\ task[i].st = "wait"
    /\ IF GCtxErr
       THEN TaskFails(i, "cancelled", 0)
       ELSE /\ task' = [task EXCEPT ![i] = [@ EXCEPT !.st = "op", !.attempt = @ + 1]]
            /\ groupErr' = groupErr
    /\ UNCHANGED <<push, scanner, retry, workersArg, mode, skipMD5, workers, uiWired,
                   localFS, store, nextMsgID, invLocal, invRemote, plan,
                   plan2, pc, nextTask, deleteIdx, callerCancelled, result,
                   hist>>

\* A g.Wait that returns while tasks it started are still running.
WaitReturnEarly ==
    /\ pc = "wait"
    /\ IF groupErr # "none"
       THEN result' = groupErr /\ pc' = "done" /\ hist' = hist
       ELSE /\ result' = result
            /\ pc' = "delete"
            /\ hist' = IF uiWired
                       THEN [hist EXCEPT !.ui = @ \cup {"Wait"}, !.uiWaits = @ + 1]
                       ELSE hist
    /\ UNCHANGED <<push, scanner, retry, workersArg, mode, skipMD5, workers, uiWired,
                   localFS, store, nextMsgID, invLocal, invRemote, plan,
                   plan2, nextTask, task, deleteIdx, callerCancelled,
                   groupErr>>

\* A g.Wait that returns only when no task returned an error.
WaitReturnOnSuccess ==
    /\ pc = "wait"
    /\ Active = 0
    /\ groupErr = "none"
    /\ result' = result
    /\ pc' = "delete"
    /\ hist' = IF uiWired
               THEN [hist EXCEPT !.ui = @ \cup {"Wait"}, !.uiWaits = @ + 1]
               ELSE hist
    /\ UNCHANGED <<push, scanner, retry, workersArg, mode, skipMD5, workers, uiWired,
                   localFS, store, nextMsgID, invLocal, invRemote, plan,
                   plan2, nextTask, task, deleteIdx, callerCancelled,
                   groupErr>>

\* g.Wait returns once every started task has returned.
WaitReturn ==
    /\ pc = "wait"
    /\ Active = 0
    /\ IF groupErr # "none"
       THEN result' = groupErr /\ pc' = "done" /\ hist' = hist
       ELSE /\ result' = result
            /\ pc' = "delete"
            /\ hist' = IF uiWired
                       THEN [hist EXCEPT !.ui = @ \cup {"Wait"}, !.uiWaits = @ + 1]
                       ELSE hist
    /\ UNCHANGED <<push, scanner, retry, workersArg, mode, skipMD5, workers, uiWired,
                   localFS, store, nextMsgID, invLocal, invRemote, plan,
                   plan2, nextTask, task, deleteIdx, callerCancelled,
                   groupErr>>

\* A loop over deleteTasks that stops at the first deletion that fails.
DeleteStepAbort ==
    /\ pc = "delete"
    /\ deleteIdx <= Len(DeleteTasks)
    /\ LET item == DeleteTasks[deleteIdx]
           \* the error, if any, is logged and the loop goes on
           logged(ok) == [hist EXCEPT !.deleted = Append(@, item.Path),
                                      !.deleteFailed = IF ok THEN @
                                                       ELSE @ \cup {deleteIdx}]
       IN IF item.Action = ActionDeleteRemote
          THEN /\ localFS' = localFS
               /\ \E ok \in (IF item.RemoteFile = Nil \/ callerCancelled
                             THEN {FALSE} ELSE BOOLEAN) :
                     /\ store' = IF ok
                                 THEN {m \in store :
                                          m.MessageID # item.RemoteFile.MessageID}
                                 ELSE store
                     /\ hist' = logged(ok)
          ELSE /\ store' = store
               /\ \E ok \in (IF localFS[item.Path] = Nil THEN {FALSE} ELSE BOOLEAN) :
                     /\ localFS' = IF ok THEN [localFS EXCEPT ![item.Path] = Nil]
                                   ELSE localFS
                     /\ hist' = logged(ok)
    /\ deleteIdx' = IF hist'.deleteFailed = hist.deleteFailed THEN deleteIdx + 1
                    ELSE Len(DeleteTasks) + 1
    /\ UNCHANGED <<push, scanner, retry, workersArg, mode, skipMD5, workers, uiWired,
                   nextMsgID, invLocal, invRemote, plan, plan2, pc, nextTask,
                   task, callerCancelled, groupErr, result>>

\* One iteration of the loop over deleteTasks: deleteRemote or deleteLocal.
DeleteStep ==
    /\ pc = "delete"
    /\ deleteIdx <= Len(DeleteTasks)
    /\ LET item == DeleteTasks[deleteIdx]
           \* the error, if any, is logged and the loop goes on
           logged(ok) == [hist EXCEPT !.deleted = Append(@, item.Path),
                                      !.deleteFailed = IF ok THEN @
                                                       ELSE @ \cup {deleteIdx}]
       IN IF item.Action = ActionDeleteRemote
          THEN /\ localFS' = localFS
               /\ \E ok \in (IF item.RemoteFile = Nil \/ callerCancelled
                             THEN {FALSE} ELSE BOOLEAN) :
                     /\ store' = IF ok
                                 THEN {m \in store :
                                          m.MessageID # item.RemoteFile.MessageID}
                                 ELSE store
                     /\ hist' = logged(ok)
          ELSE /\ store' = store
               /\ \E ok \in (IF localFS[item.Path] = Nil THEN {FALSE} ELSE BOOLEAN) :
                     /\ localFS' = IF ok THEN [localFS EXCEPT ![item.Path] = Nil]
                                   ELSE localFS
                     /\ hist' = logged(ok)
    /\ deleteIdx' = deleteIdx + 1
    /\ UNCHANGED <<push, scanner, retry, workersArg, mode, skipMD5, workers, uiWired,
                   nextMsgID, invLocal, invRemote, plan, plan2, pc, nextTask,
                   task, callerCancelled, groupErr, result>>

\* The loop over deleteTasks is over: Execute returns nil.
Finish ==
    /\ pc = "delete"
    /\ deleteIdx > Len(DeleteTasks)
    /\ result' = "nil"
    /\ pc' = "done"
    /\ UNCHANGED <<push, scanner, retry, workersArg, mode, skipMD5, workers, uiWired,
                   localFS, store, nextMsgID, invLocal, invRemote, plan,
                   plan2, nextTask, task, deleteIdx, callerCancelled,
                   groupErr, hist>>

\* The caller cancels the ctx it gave to Execute.
CallerCancel ==
    /\ pc \in {"planned", "loop", "go", "wait", "delete"}
    /\ ~callerCancelled
    /\ callerCancelled' = TRUE
    /\ hist' = [hist EXCEPT !.midCancel =
                    /\ pc \in {"loop", "go"}
                    /\ \E i \in DOMAIN task : task[i].st = "pending"]
    /\ UNCHANGED <<push, scanner, retry, workersArg, mode, skipMD5, workers, uiWired,
                   localFS, store, nextMsgID, invLocal, invRemote, plan,
                   plan2, pc, nextTask, task, deleteIdx, groupErr, result>>

----------------------------------------------------------------------------
(* Spec: a push or pull run, and the scan and diff of the next run *)

\* What a path may hold on the two sides when the run starts: the file on disk
\* and the messages of the topic that carry the path (older, newer: their ids).
Scenarios(p, older, newer) ==
    LET F1 == FileOnDisk("H1", 100, 10)
        F0 == FileOnDisk("H0", 100, 0)
        R1(id) == RemoteFile(FileMeta(p, "H1", 100, ""), id, 10)
        R2(id) == RemoteFile(FileMeta(p, "H2", 200, ""), id, 10)
        RE(id) == RemoteFile(FileMeta(p, "H0", 100, EmptyFileFlag), id, 1)
    IN  { [disk |-> F1,  msgs |-> {}],
          [disk |-> F0,  msgs |-> {}],
          [disk |-> Nil, msgs |-> {R1(newer)}],
          [disk |-> Nil, msgs |-> {RE(newer)}],
          [disk |-> Nil, msgs |-> {R2(newer), R1(older)}],
          [disk |-> F1,  msgs |-> {R1(newer)}],
          [disk |-> F1,  msgs |-> {R2(newer)}],
          [disk |-> F1,  msgs |-> {R2(newer), R1(older)}] }

ScenariosOf(p) == Scenarios(p, 2 * PathIndex(p) - 1, 2 * PathIndex(p))

Trees ==
    {g \in [Paths -> UNION {ScenariosOf(p) : p \in Paths}] :
        \A p \in Paths : g[p] \in ScenariosOf(p)}

\* The downloads of a pull of this tree that stream a blob (not EMPTY_FILE).
Streamed(fs, msgs) ==
    LET local == ScanLocal(fs)
        remote == ScanRemote(Listing(msgs))
        pl == DiffPull(FALSE, local, remote,
                       CHOOSE o \in Orders(DOMAIN local) : TRUE,
                       CHOOSE o \in Orders(DOMAIN remote) : TRUE)
    IN  {i \in DOMAIN pl.Items :
            /\ pl.Items[i].Action = ActionDownload
            /\ pl.Items[i].RemoteFile.Meta.Flags # EmptyFileFlag}

Init ==
    /\ mode \in {"push", "pull"}
    /\ skipMD5 = FALSE
    /\ retry = NoRetry
    /\ scanner = NoScanner
    /\ push = NoPush
    /\ workersArg \in -1..MaxWorkers
    /\ workers = NewExecutor(workersArg)
    /\ uiWired \in BOOLEAN
    /\ \E tree \in Trees :
          /\ localFS = [p \in Paths |-> tree[p].disk]
          /\ store = UNION {tree[p].msgs : p \in Paths}
    /\ mode = "pull" => Cardinality(Streamed(localFS, store)) <= MaxStreamed
    /\ nextMsgID = 2 * NumPaths + 1
    /\ invLocal = <<>>
    /\ invRemote = <<>>
    /\ plan = EmptyPlan
    /\ plan2 = EmptyPlan
    /\ pc = "start"
    /\ nextTask = 1
    /\ task = NoTasks
    /\ deleteIdx = 1
    /\ callerCancelled = FALSE
    /\ groupErr = "none"
    /\ result = "none"
    /\ hist = NoHist

\* ScanLocal and ScanRemote, before the first diff and before the second.
Scan ==
    /\ pc = "start" \/ (pc = "done" /\ result = "nil")
    /\ invLocal' = ScanLocal(localFS)
    /\ invRemote' = ScanRemote(Listing(store))
    /\ pc' = IF pc = "start" THEN "scanned" ELSE "applied"
    /\ hist' = IF pc = "start" THEN [hist EXCEPT !.listed = Listing(store)] ELSE hist
    /\ UNCHANGED <<push, scanner, retry, workersArg, mode, skipMD5, workers, uiWired,
                   localFS, store, nextMsgID, plan, plan2, nextTask, task,
                   deleteIdx, callerCancelled, groupErr, result>>

Next ==
    \/ Scan
    \/ DiffStep
    \/ ExecuteBegin
    \/ LoopCheck
    \/ Go
    \/ \E i \in DOMAIN task : UploadCall(i)
    \/ \E i \in DOMAIN task : StaleDelete(i)
    \/ \E i \in DOMAIN task : DownloadCall(i)
    \/ \E i \in DOMAIN task : WriteCall(i)
    \/ \E i \in DOMAIN task : RetryWait(i)
    \/ WaitReturn
    \/ DeleteStep
    \/ Finish
    \/ CallerCancel
    \/ RediffStep

Spec == Init /\ [][Next]_vars

----------------------------------------------------------------------------
(* SpecExec: Execute on plans that a caller hands to it *)

\* Execute is exported and takes any plan: the items a caller may build for a
\* path, with or without the counterpart their action needs.
ExecFile(p) == FileOnDisk("H1", 100, 10)
ExecEntry(p) == RemoteFile(FileMeta(p, "H2", 200, ""), PathIndex(p), 10)
ExecEntryNoTime(p) == RemoteFile(FileMeta(p, "H2", 0, ""), PathIndex(p), 10)
ExecEntryEmpty(p) == RemoteFile(FileMeta(p, "H0", 200, EmptyFileFlag), PathIndex(p), 1)

ExecItems(p) ==
    LET lf == LocalFile(p, "H1", 100, 10)
        rf == ExecEntry(p)
    IN  {SyncItem(p, ActionUpload, l, r, "r") : l \in {lf, Nil}, r \in {rf, Nil}}
        \cup {SyncItem(p, ActionDownload, Nil, r, "r") :
                 r \in {rf, ExecEntryNoTime(p), ExecEntryEmpty(p), Nil}}
        \cup {SyncItem(p, ActionDeleteRemote, Nil, r, "r") : r \in {rf, Nil}}
        \cup {SyncItem(p, ActionDeleteLocal, lf, Nil, "r")}

ExecPlans ==
    {items \in UNION {[1..n -> UNION {ExecItems(p) : p \in Paths}] : n \in 1..MaxItems} :
        \A i, j \in DOMAIN items : i # j => items[i].Path # items[j].Path}

InitExec ==
    /\ mode = "push"
    /\ skipMD5 = FALSE
    /\ retry = NoRetry
    /\ scanner = NoScanner
    /\ push = NoPush
    /\ workersArg \in 1..MaxWorkers
    /\ workers = NewExecutor(workersArg)
    /\ uiWired = FALSE
    /\ localFS = [p \in Paths |-> ExecFile(p)]
    /\ store = {ExecEntry(p) : p \in Paths}
    /\ nextMsgID = 2 * NumPaths + 1
    /\ invLocal = <<>>
    /\ invRemote = <<>>
    /\ \E items \in ExecPlans :
          plan = SyncPlan(items, [ZeroSummary EXCEPT !.Total = Len(items)])
    /\ plan2 = EmptyPlan
    /\ pc = "planned"
    /\ nextTask = 1
    /\ task = NoTasks
    /\ deleteIdx = 1
    /\ callerCancelled = FALSE
    /\ groupErr = "none"
    /\ result = "none"
    /\ hist = NoHist

NextExec ==
    \/ ExecuteBegin
    \/ LoopCheck
    \/ Go
    \/ \E i \in DOMAIN task : UploadCall(i)
    \/ \E i \in DOMAIN task : StaleDelete(i)
    \/ \E i \in DOMAIN task : DownloadCall(i)
    \/ \E i \in DOMAIN task : WriteCall(i)
    \/ \E i \in DOMAIN task : RetryWait(i)
    \/ WaitReturn
    \/ DeleteStep
    \/ Finish
    \/ CallerCancel

SpecExec == InitExec /\ [][NextExec]_vars

\* The steps of Execute and of its tasks: every disjunct of NextExec but the
\* caller's cancellation.
ExecSteps ==
    \/ ExecuteBegin
    \/ LoopCheck
    \/ Go
    \/ \E i \in DOMAIN task : UploadCall(i)
    \/ \E i \in DOMAIN task : StaleDelete(i)
    \/ \E i \in DOMAIN task : DownloadCall(i)
    \/ \E i \in DOMAIN task : WriteCall(i)
    \/ \E i \in DOMAIN task : RetryWait(i)
    \/ WaitReturn
    \/ DeleteStep
    \/ Finish

\* SpecExec where every collaborator call returns and every wait ends: a
\* step of Execute or of a task that can be taken is taken in the end. The
\* caller may cancel or not.
SpecExecFair == InitExec /\ [][NextExec]_vars /\ WF_vars(ExecSteps)

----------------------------------------------------------------------------
(* SpecScan: NewScanner, ScanLocal and ScanRemote with a scope, then Diff *)

Separators == {"/", "\\"}

\* The paths of the scan, in the lexical order of filepath.WalkDir:
\* a, a/x, a\x, ab/x.
ScanPathList ==
    << <<"a">>, <<"a", "/", "x">>, <<"a", "\\", "x">>, <<"a", "b", "/", "x">> >>
ScanPaths == {ScanPathList[k] : k \in DOMAIN ScanPathList}

\* The subDir arguments: "", a, /a/, /, ab, a/x, a\.
ScopeArgs ==
    {<<>>, <<"a">>, <<"/", "a", "/">>, <<"/">>, <<"a", "b">>, <<"a", "/", "x">>,
     <<"a", "\\">>}

\* What fs.ListFiles returns: the files of a tree in walk order, their paths
\* already through filepath.ToSlash; a tree has no file inside a file.
LocalListings(sep) ==
    {SelectSeq([k \in DOMAIN ScanPathList |->
                   LocalFile(ScanPathList[k], "H1", 100, 10)],
               LAMBDA f : f.Path \in S) :
        S \in {T \in SUBSET {p \in ScanPaths : ToSlash(sep, p) = p} :
                  \A p, q \in T : ~HasPrefix(q, p \o <<"/">>)}}

\* What storage.ListFiles returns: the entries of the topic, newest first.
RemoteListings ==
    {[k \in DOMAIN paths |->
         RemoteFile(FileMeta(paths[k], IF k % 2 = 1 THEN "H1" ELSE "H2", 100, ""),
                    MaxListing + 1 - k, 10)] :
        paths \in UNION {[1..n -> ScanPaths] : n \in 0..MaxListing}}

InitScan ==
    /\ \E sep \in Separators, arg \in ScopeArgs :
          \E files \in LocalListings(sep), listing \in RemoteListings :
             scanner = [sep |-> sep, subDirArg |-> arg,
                        subDir |-> NewScanner(sep, arg),
                        files |-> files, listing |-> listing,
                        localRet |-> NotScanned, remoteRet |-> NotScanned]
    /\ push = NoPush
    /\ mode \in {"push", "pull"}
    /\ skipMD5 = FALSE
    /\ retry = NoRetry
    /\ workersArg = 1
    /\ workers = NewExecutor(workersArg)
    /\ uiWired = FALSE
    /\ localFS = <<>>
    /\ store = {}
    /\ nextMsgID = MaxListing + 1
    /\ invLocal = <<>>
    /\ invRemote = <<>>
    /\ plan = EmptyPlan
    /\ plan2 = EmptyPlan
    /\ pc = "start"
    /\ nextTask = 1
    /\ task = NoTasks
    /\ deleteIdx = 1
    /\ callerCancelled = FALSE
    /\ groupErr = "none"
    /\ result = "none"
    /\ hist = NoHist

\* ScanLocal and ScanRemote of the scoped scanner; the inventories go to the
\* Differ when both scans returned without an error.
ScanScoped ==
    /\ pc = "start"
    /\ \E ensureOK, listOK, remoteOK \in BOOLEAN :
          LET l == ScanLocalCall(scanner.sep, scanner.subDir, scanner.files,
                                 ensureOK, listOK)
              r == ScanRemoteCall(scanner.sep, scanner.subDir, scanner.listing,
                                  remoteOK)
          IN  /\ scanner' = [scanner EXCEPT !.localRet = l, !.remoteRet = r]
              /\ IF l.err = "nil" /\ r.err = "nil"
                 THEN /\ invLocal' = l.inv.entries
                      /\ invRemote' = r.inv.entries
                      /\ pc' = "scanned"
                 ELSE /\ UNCHANGED <<invLocal, invRemote>>
                      /\ pc' = "scanfailed"
    /\ UNCHANGED <<push, retry, workersArg, mode, skipMD5, workers, uiWired,
                   localFS, store, nextMsgID, plan, plan2, nextTask, task,
                   deleteIdx, callerCancelled, groupErr, result, hist>>

NextScan == ScanScoped \/ DiffStep

SpecScan == InitScan /\ [][NextScan]_vars

----------------------------------------------------------------------------
(* SpecRetry: one call WithRetry(ctx, name, op, maxRetries, baseDelay) *)

MaxAttempts == 5

\* time.Duration is an int64 count of nanoseconds.  The model counts durations
\* in units of 2^40 ns, which leaves 24 bits of the 64: the product of two
\* durations wraps as Go's int64 product does.
Duration(x) == ((x + 8388608) % 16777216) - 8388608

\* baseDelay: none, one unit, three units, 2^62 ns.
BaseDelays == {0, 1, 3, 4194304}

\* What op returns: nil, another error, context.Canceled, or an error that
\* wraps context.DeadlineExceeded.
OpResults ==
    {OpNil, [kind |-> "other", wrapped |-> FALSE],
     [kind |-> "Canceled", wrapped |-> FALSE],
     [kind |-> "DeadlineExceeded", wrapped |-> TRUE]}

\* What op returns at each of its invocations.
Scripts(n) == [1..n -> OpResults]

\* time.Duration(math.Pow(2, float64(attempt-2))) * baseDelay
Backoff(attempt, baseDelay) == Duration(Duration(2 ^ (attempt - 2)) * baseDelay)

NotReturned == [kind |-> "none"]

InitRetry ==
    /\ scanner = NoScanner
    /\ push = NoPush
    /\ \E n \in -1..MaxAttempts, d \in BaseDelays :
          \E script \in Scripts(n) :
             retry = [pc |-> "loop", maxRetries |-> n, baseDelay |-> d,
                      script |-> script, attempt |-> 1, calls |-> 0,
                      waits |-> <<>>, waited |-> 0, lastErr |-> OpNil,
                      ctxErr |-> "none", cancelAt |-> 0, readyAtEntry |-> FALSE,
                      ret |-> NotReturned]
    /\ workersArg = 1
    /\ mode = "push"
    /\ skipMD5 = FALSE
    /\ workers = 1
    /\ uiWired = FALSE
    /\ localFS = [p \in Paths |-> Nil]
    /\ store = {}
    /\ nextMsgID = 1
    /\ invLocal = <<>>
    /\ invRemote = <<>>
    /\ plan = EmptyPlan
    /\ plan2 = EmptyPlan
    /\ pc = "retry"
    /\ nextTask = 1
    /\ task = NoTasks
    /\ deleteIdx = 1
    /\ callerCancelled = FALSE
    /\ groupErr = "none"
    /\ result = "none"
    /\ hist = NoHist

\* Everything but the call of WithRetry.
others == <<push, scanner, workersArg, mode, skipMD5, workers, uiWired, localFS, store, nextMsgID,
            invLocal, invRemote, plan, plan2, pc, nextTask, task, deleteIdx,
            callerCancelled, groupErr, result, hist>>

\* A loop that gives up one attempt early.
WithRetryLoopShort ==
    /\ retry.pc = "loop"
    /\ IF retry.attempt >= retry.maxRetries
       THEN retry' = [retry EXCEPT !.pc = "done",
                         !.ret = [kind |-> "wrapped", attempts |-> retry.maxRetries,
                                  err |-> retry.lastErr]]
       ELSE IF retry.attempt > 1
       THEN retry' = [retry EXCEPT !.pc = "select",
                         !.waits = Append(@, Backoff(retry.attempt, retry.baseDelay)),
                         !.readyAtEntry =
                             /\ retry.ctxErr # "none"
                             /\ Backoff(retry.attempt, retry.baseDelay) <= 0]
       ELSE retry' = [retry EXCEPT !.pc = "op"]
    /\ UNCHANGED others

\* A loop that, once over, returns lastErr as it is.
WithRetryLoopBare ==
    /\ retry.pc = "loop"
    /\ IF retry.attempt > retry.maxRetries
       THEN retry' = [retry EXCEPT !.pc = "done",
                         !.ret = IF retry.lastErr = OpNil THEN [kind |-> "nil"]
                                 ELSE [kind |-> "err", err |-> retry.lastErr]]
       ELSE IF retry.attempt > 1
       THEN retry' = [retry EXCEPT !.pc = "select",
                         !.waits = Append(@, Backoff(retry.attempt, retry.baseDelay)),
                         !.readyAtEntry =
                             /\ retry.ctxErr # "none"
                             /\ Backoff(retry.attempt, retry.baseDelay) <= 0]
       ELSE retry' = [retry EXCEPT !.pc = "op"]
    /\ UNCHANGED others

\* Top of the loop: leave it after maxRetries attempts, wait before every
\* attempt but the first.
WithRetryLoop ==
    /\ retry.pc = "loop"
    /\ IF retry.attempt > retry.maxRetries
       THEN retry' = [retry EXCEPT !.pc = "done",
                         !.ret = [kind |-> "wrapped", attempts |-> retry.maxRetries,
                                  err |-> retry.lastErr]]
       ELSE IF retry.attempt > 1
       THEN retry' = [retry EXCEPT !.pc = "select",
                         !.waits = Append(@, Backoff(retry.attempt, retry.baseDelay)),
                         !.readyAtEntry =
                             /\ retry.ctxErr # "none"
                             /\ Backoff(retry.attempt, retry.baseDelay) <= 0]
       ELSE retry' = [retry EXCEPT !.pc = "op"]
    /\ UNCHANGED others

\* A select in which the timer may win although ctx was done during the wait.
WithRetryTimerRacy ==
    /\ retry.pc = "select"
    /\ retry' = [retry EXCEPT !.pc = "op", !.waited = @ + 1]
    /\ UNCHANGED others

\* select, case <-time.After(delay): chosen when ctx is not done, or when both
\* channels were ready as the select was entered.
WithRetryTimer ==
    /\ retry.pc = "select"
    /\ retry.ctxErr = "none" \/ retry.readyAtEntry
    /\ retry' = [retry EXCEPT !.pc = "op", !.waited = @ + 1]
    /\ UNCHANGED others

\* select, case <-ctx.Done(): return ctx.Err().
WithRetryCtxDone ==
    /\ retry.pc = "select"
    /\ retry.ctxErr # "none"
    /\ retry' = [retry EXCEPT !.pc = "done",
                     !.ret = [kind |-> "ctx", err |-> retry.ctxErr]]
    /\ UNCHANGED others

\* err := op() and what the loop does with it.
WithRetryOp ==
    /\ retry.pc = "op"
    /\ LET err == retry.script[retry.attempt] IN
          IF err = OpNil
          THEN retry' = [retry EXCEPT !.calls = @ + 1, !.pc = "done",
                            !.ret = [kind |-> "nil"]]
          ELSE IF IsCancellation(err)
          THEN retry' = [retry EXCEPT !.calls = @ + 1, !.lastErr = err, !.pc = "done",
                            !.ret = [kind |-> "err", err |-> err]]
          ELSE retry' = [retry EXCEPT !.calls = @ + 1, !.lastErr = err, !.pc = "loop",
                            !.attempt = @ + 1]
    /\ UNCHANGED others

\* ctx is cancelled or its deadline passes, while op runs or during a wait.
CtxDone ==
    /\ retry.pc \in {"op", "select"}
    /\ retry.ctxErr = "none"
    /\ \E e \in {"Canceled", "DeadlineExceeded"} :
          retry' = [retry EXCEPT !.ctxErr = e,
                       !.cancelAt = IF retry.pc = "select" /\ ~retry.readyAtEntry
                                         /\ retry.waits[Len(retry.waits)] > 0
                                    THEN retry.attempt ELSE 0,
                       !.readyAtEntry = retry.pc = "select"
                                          /\ retry.waits[Len(retry.waits)] <= 0]
    /\ UNCHANGED others

NextRetry ==
    \/ WithRetryLoop
    \/ WithRetryTimer
    \/ WithRetryCtxDone
    \/ WithRetryOp
    \/ CtxDone

SpecRetry == InitRetry /\ [][NextRetry]_vars

----------------------------------------------------------------------------
(* Properties of the Differ, checked under SpecDiff *)

\* The comparability key of an entry under the active policy (spec 4.1, 4.2).
KeyLocal(skip, l) == IF skip THEN <<l.ModTime, l.Size>> ELSE <<l.Checksum>>
KeyRemote(skip, r) ==
    IF skip
    THEN <<r.Meta.ModTime, IF r.Meta.Flags = EmptyFileFlag THEN 0 ELSE r.Size>>
    ELSE <<r.Meta.Checksum>>

ItemsOf(pl) == {pl.Items[i] : i \in DOMAIN pl.Items}
ItemsAt(pl, p) == {it \in ItemsOf(pl) : it.Path = p}

\* What the claims say of an item: its path, action, reason and, for a changed
\* path, the counterpart entry it carries.
ClaimView(it) ==
    [Path |-> it.Path, Action |-> it.Action, Reason |-> it.Reason,
     Carried |-> IF it.Reason = "Changed" THEN it.RemoteFile
                 ELSE IF it.Reason = "Changed remote" THEN it.LocalFile
                 ELSE Nil]

View(path, action, reason, carried) ==
    [Path |-> path, Action |-> action, Reason |-> reason, Carried |-> carried]

Both == DOMAIN invLocal \cap DOMAIN invRemote
ChangedPaths == {p \in Both : KeyLocal(skipMD5, invLocal[p]) # KeyRemote(skipMD5, invRemote[p])}

ExpectedPush ==
    {View(p, ActionUpload, "New file", Nil) : p \in DOMAIN invLocal \ DOMAIN invRemote}
    \cup {View(p, ActionUpload, "Changed", invRemote[p]) : p \in ChangedPaths}
    \cup {View(p, ActionDeleteRemote, "Deleted locally", Nil) :
             p \in DOMAIN invRemote \ DOMAIN invLocal}

ExpectedPull ==
    {View(p, ActionDownload, "New remote file", Nil) :
             p \in DOMAIN invRemote \ DOMAIN invLocal}
    \cup {View(p, ActionDownload, "Changed remote", invLocal[p]) : p \in ChangedPaths}
    \cup {View(p, ActionDeleteLocal, "Deleted remotely", Nil) :
             p \in DOMAIN invLocal \ DOMAIN invRemote}

\* C5: DiffPush returns exactly one Upload "New file" per local-only path, one
\* Upload "Changed" carrying the remote entry per path on both sides whose key
\* differs, one DeleteRemote "Deleted locally" per remote-only path, and
\* nothing for a path with equal keys.
C5_DiffPushExact ==
    (pc = "planned" /\ mode = "push") =>
        /\ {ClaimView(it) : it \in ItemsOf(plan)} = ExpectedPush
        /\ Len(plan.Items) = Cardinality(ExpectedPush)

C5_Witness ==
    /\ pc = "planned" /\ mode = "push"
    /\ \E it \in ItemsOf(plan) : it.Reason = "Changed"
    /\ \E it \in ItemsOf(plan) : it.Reason = "Deleted locally"

\* C6: DiffPull returns exactly one Download "New remote file" per remote-only
\* path, one Download "Changed remote" carrying the local entry per path on
\* both sides whose key differs, one DeleteLocal "Deleted remotely" per
\* local-only path, and nothing for an unchanged path.
C6_DiffPullExact ==
    (pc = "planned" /\ mode = "pull") =>
        /\ {ClaimView(it) : it \in ItemsOf(plan)} = ExpectedPull
        /\ Len(plan.Items) = Cardinality(ExpectedPull)

C6_Witness ==
    /\ pc = "planned" /\ mode = "pull"
    /\ \E it \in ItemsOf(plan) : it.Reason = "Changed remote"
    /\ \E it \in ItemsOf(plan) : it.Reason = "Deleted remotely"

\* Equivalence of two entries as the specification words it.
Equivalent(skip, l, r) ==
    IF skip
    THEN /\ l.ModTime = r.Meta.ModTime
         /\ l.Size = (IF r.Meta.Flags = EmptyFileFlag THEN 0 ELSE r.Size)
    ELSE l.Checksum = r.Meta.Checksum

IsExample(p) ==
    /\ p \in Both
    /\ invLocal[p] = LocalFile(p, "H1", 100, 10)
    /\ invRemote[p].Meta = FileMeta(p, "H1", 200, "")
    /\ invRemote[p].Size = 10

\* C7: a path on both sides gets no item exactly when its two entries are
\* equivalent: equal hashes in hash mode; equal modTime and equal size in
\* modTime mode, an EMPTY_FILE remote counting as size 0.  For local
\* {H1, 100, 10} against remote {H1, 200, 10}, hash mode plans nothing and
\* modTime mode plans Upload "Changed".
C7_ShouldUpdateRule ==
    pc = "planned" =>
        \A p \in Both :
            /\ (ItemsAt(plan, p) = {}) <=> Equivalent(skipMD5, invLocal[p], invRemote[p])
            /\ (IsExample(p) /\ mode = "push") =>
                  IF skipMD5
                  THEN \E it \in ItemsAt(plan, p) :
                          it.Action = ActionUpload /\ it.Reason = "Changed"
                  ELSE ItemsAt(plan, p) = {}

C7_Witness ==
    /\ pc = "planned" /\ mode = "push" /\ skipMD5
    /\ \E p \in Both : IsExample(p) /\ ItemsAt(plan, p) # {}
    /\ \E p \in Both :
          invRemote[p].Meta.Flags = EmptyFileFlag /\ invLocal[p].Size = 0 /\ ItemsAt(plan, p) = {}

\* C8: after the simulated execution of the plan the two inventories have the
\* same paths and the same comparability keys, and the second diff is empty.
C8_Idempotence ==
    /\ pc \in {"applied", "rediffed"} =>
          /\ DOMAIN invLocal = DOMAIN invRemote
          /\ \A p \in DOMAIN invLocal :
                KeyLocal(skipMD5, invLocal[p]) = KeyRemote(skipMD5, invRemote[p])
    /\ pc = "rediffed" => (plan2.Summary.Total = 0 /\ plan2.Items = <<>>)

C8_Witness ==
    /\ pc = "rediffed" /\ skipMD5 /\ mode = "push"
    /\ Len(plan.Items) = NumPaths
    /\ \E it \in ItemsOf(plan) : it.Action = ActionUpload /\ it.LocalFile.Size = 0
    /\ \E it \in ItemsOf(plan) : it.Action = ActionDeleteRemote

NoPathTwice(pl) ==
    \A i, j \in DOMAIN pl.Items : i # j => pl.Items[i].Path # pl.Items[j].Path

\* C10: no path appears in two items of a plan produced by DiffPush or DiffPull.
C10_Disjointness ==
    pc \in {"planned", "applied", "rediffed"} => (NoPathTwice(plan) /\ NoPathTwice(plan2))

C10_Witness ==
    /\ pc = "planned"
    /\ Len(plan.Items) = NumPaths
    /\ \E it \in ItemsOf(plan) : it.Reason \in {"Changed", "Changed remote"}

\* The bucket of an item and the action of the opposite direction.
Bucket(it) ==
    IF it.Reason \in {"New file", "New remote file"} THEN "new"
    ELSE IF it.Reason \in {"Changed", "Changed remote"} THEN "changed"
    ELSE "stale"

Swapped(action) ==
    IF action = ActionUpload THEN ActionDownload
    ELSE IF action = ActionDownload THEN ActionUpload
    ELSE IF action = ActionDeleteRemote THEN ActionDeleteLocal
    ELSE ActionDeleteRemote

\* C11: DiffPush(A, B) and DiffPull(B, A) put the same paths into the same
\* buckets (new, changed, stale), Upload answering Download and DeleteRemote
\* answering DeleteLocal.
C11_Symmetry ==
    pc = "mirrored" =>
        /\ {<<it.Path, Bucket(it), Swapped(it.Action)>> : it \in ItemsOf(plan)}
              = {<<it.Path, Bucket(it), it.Action>> : it \in ItemsOf(plan2)}
        /\ Len(plan.Items) = Len(plan2.Items)

C11_Witness ==
    /\ pc = "mirrored" /\ skipMD5
    /\ \E it \in ItemsOf(plan2) : Bucket(it) = "changed"
    /\ \E p \in Both : invRemote[p].Meta.Flags = EmptyFileFlag /\ ItemsAt(plan, p) = {}

CountOf(pl, reasons) ==
    Cardinality({i \in DOMAIN pl.Items : pl.Items[i].Reason \in reasons})

SummaryExact(pl) ==
    /\ pl.Summary.Total = Len(pl.Items)
    /\ pl.Summary.Total = pl.Summary.ToUpload + pl.Summary.ToUpdate
                            + pl.Summary.ToDownload + pl.Summary.ToDelete
    /\ pl.Summary.ToUpload = CountOf(pl, {"New file"})
    /\ pl.Summary.ToDownload = CountOf(pl, {"New remote file"})
    /\ pl.Summary.ToUpdate = CountOf(pl, {"Changed", "Changed remote"})
    /\ pl.Summary.ToDelete = CountOf(pl, {"Deleted locally", "Deleted remotely"})

IsScenario == invLocal = ScenarioLocal /\ invRemote = ScenarioRemote

\* C12: in every plan total is the number of items and the sum of the four
\* counters, each counter being the number of items of its bucket; the
\* scenario {a.txt H1, b.txt H2} against {a.txt H1, c.txt H3} gives a push
\* plan with toUpload 1, toDelete 1, total 2.
C12_SummaryCounters ==
    /\ pc \in {"planned", "applied", "rediffed", "mirrored"} =>
          (SummaryExact(plan) /\ SummaryExact(plan2))
    /\ (pc = "planned" /\ IsScenario /\ mode = "push") =>
          plan.Summary = SyncSummary(1, 0, 0, 1, 2)

C12_Witness ==
    /\ pc = "planned" /\ mode = "push" /\ IsScenario
    /\ {<<it.Path, it.Action, it.Reason>> : it \in ItemsOf(plan)}
          = {<<"b.txt", ActionUpload, "New file">>,
             <<"c.txt", ActionDeleteRemote, "Deleted locally">>}

----------------------------------------------------------------------------
(* Properties of the Executor, checked under Spec *)

Executing == pc \in {"loop", "go", "wait", "delete", "done", "applied", "rediffed"}
Returned == pc \in {"done", "applied", "rediffed"}

AllTransfersSucceeded ==
    /\ Len(task) = Len(TransferTasks)
    /\ \A i \in DOMAIN task : task[i].st = "ok"

\* C1: no DeleteRemote or DeleteLocal item is processed unless every Upload and
\* Download item of the plan has completed successfully.
C1_DeletionsAfterTransfers ==
    (Executing /\ hist.deleted # <<>>) => AllTransfersSucceeded

\* The store's entries uploaded by this run for a path.
UploadedFor(path) ==
    {m \in store : m.Meta.Path = path /\ m.MessageID > 2 * NumPaths}

IsUpdate(i) ==
    /\ TransferTasks[i].Action = ActionUpload
    /\ TransferTasks[i].RemoteFile # Nil

\* C2: for an Upload that carries a remoteFile, DeleteFile of the old version is
\* issued only after UploadFile returned success and never after it failed; the
\* store holds an entry for the path at every state; and a failed deletion of
\* the old version leaves the item successful.
C2_StaleDeleteAfterUpload ==
    (Executing /\ mode = "push") =>
        \A i \in DOMAIN task :
            IsUpdate(i) =>
                LET item == TransferTasks[i] IN
                /\ (i \in hist.stale) =>
                      /\ \E m \in UploadedFor(item.Path) :
                            m.Meta = UploadedEntry(item.LocalFile, 0).Meta
                      /\ task[i].st = "ok"
                /\ task[i].st \in {"error", "cancelled"} =>
                      (i \notin hist.stale /\ item.RemoteFile \in store)
                /\ \E m \in store : m.Meta.Path = item.Path

\* An update whose stale deletion failed: both versions are in the store and
\* the run returned nil.
C2_Witness ==
    /\ mode = "push" /\ pc = "done" /\ result = "nil"
    /\ \E i \in DOMAIN task :
          /\ IsUpdate(i)
          /\ i \in hist.stale
          /\ TransferTasks[i].RemoteFile \in store
          /\ UploadedFor(TransferTasks[i].Path) # {}
    /\ \E i \in DOMAIN task : IsUpdate(i) /\ TransferTasks[i].RemoteFile \notin store

\* C3: Execute returns nil only if every Upload and Download item of the plan
\* was executed and succeeded (stated for the runs that went past the
\* confirmation: a run the user declines returns nil by design).
C3_NilOnlyIfTransfersSucceeded ==
    (Returned /\ result = "nil" /\ plan.Summary.Total > 0 /\ hist.confirm # "no")
        => AllTransfersSucceeded

\* The local file a path held when the run was planned.
Previous(path) ==
    IF path \in DOMAIN invLocal
    THEN FileOnDisk(invLocal[path].Checksum, invLocal[path].ModTime, invLocal[path].Size)
    ELSE Nil

IsCompleteCopy(f, rf) ==
    /\ f # Nil
    /\ f.Checksum = rf.Meta.Checksum
    /\ f.Size = (IF rf.Meta.Flags = EmptyFileFlag THEN 0 ELSE rf.Size)

\* C4: after a Download item failed or was cancelled, and between its retry
\* attempts, the local file holds its previous state or the whole new content.
C4_DownloadAtomic ==
    pc \in {"loop", "go", "wait", "done"} =>
        \A i \in DOMAIN task :
            (/\ TransferTasks[i].Action = ActionDownload
             /\ TransferTasks[i].RemoteFile # Nil
             /\ task[i].st \in {"error", "cancelled", "wait"}) =>
                \/ localFS[TransferTasks[i].Path] = Previous(TransferTasks[i].Path)
                \/ IsCompleteCopy(localFS[TransferTasks[i].Path], TransferTasks[i].RemoteFile)

C15_WorkerBound ==
    /\ Active <= workers
    /\ workersArg > 0 => workers = workersArg
    /\ workersArg <= 0 => (workers = 1 /\ Active <= 1)

\* A task waits in g.Go for the only slot of an executor built with a
\* non-positive worker count.
C15_Witness ==
    /\ workersArg <= 0
    /\ pc = "go"
    /\ Active = 1

\* C16: when ConfirmSync answers false or fails, Execute calls nothing:
\* no transfer, no deletion, no SetTotalFiles, no Wait; both sides are as the
\* scan found them.
C16_DeclinedNoSideEffect ==
    hist.confirm \in {"no", "error"} =>
        /\ hist.ui = {}
        /\ task = NoTasks
        /\ hist.stale = {} /\ hist.deleted = <<>>
        /\ store = {hist.listed[i] : i \in DOMAIN hist.listed}
        /\ ScanLocal(localFS) = invLocal
        /\ result = (IF hist.confirm = "no" THEN "nil" ELSE "error")

C16_Witness ==
    /\ hist.confirm = "no"
    /\ pc = "done"
    /\ TransferTasks # <<>>
    /\ DeleteTasks # <<>>

NoDuplicates(listing) ==
    \A i, j \in DOMAIN listing : i # j => listing[i].Meta.Path # listing[j].Meta.Path

\* No deletion that the run attempted has failed.
AttemptedDeletionsSucceeded ==
    /\ \A i \in hist.stale : TransferTasks[i].RemoteFile \notin store
    /\ \A k \in DOMAIN DeleteTasks :
          k < deleteIdx => DeleteTasks[k].RemoteFile \notin store

\* C9: after a push run that returned nil, with the local tree unchanged, the
\* second ScanRemote and DiffPush give an empty plan.  Stated here for the runs
\* most favourable to the claim: the store held one entry per path at the
\* first scan and no attempted deletion failed.
C9_RerunConverges ==
    (/\ pc = "rediffed" /\ mode = "push" /\ result = "nil" /\ hist.confirm # "no"
     /\ NoDuplicates(hist.listed)
     /\ AttemptedDeletionsSucceeded) => plan2.Summary.Total = 0

----------------------------------------------------------------------------
(* Properties of the delete phase and of the transfers, checked under Spec *)

DeletePaths == [k \in 1..Len(DeleteTasks) |-> DeleteTasks[k].Path]

\* Execute went through its transfer phase without an error.
PastTransfers ==
    /\ Returned
    /\ plan.Summary.Total # 0
    /\ hist.confirm \notin {"no", "error"}
    /\ groupErr = "none"

\* C21: once the transfer phase has succeeded every deletion of the plan is
\* attempted exactly once, in plan order, whether or not earlier deletions
\* failed, and Execute returns nil.
C21_DeletePhaseBestEffort ==
    /\ pc = "delete" =>
          /\ deleteIdx <= Len(DeleteTasks) + 1
          /\ hist.deleted = SubSeq(DeletePaths, 1, deleteIdx - 1)
    /\ PastTransfers =>
          /\ hist.deleted = DeletePaths
          /\ hist.deleteFailed \subseteq DOMAIN DeleteTasks
          /\ result = "nil"

C21_Witness ==
    /\ PastTransfers
    /\ Len(DeleteTasks) = 2
    /\ 1 \in hist.deleteFailed
    /\ Len(hist.deleted) = 2
    /\ result = "nil"

IsEmptyDownload(item) ==
    /\ item.Action = ActionDownload
    /\ item.RemoteFile # Nil
    /\ item.RemoteFile.Meta.Flags = EmptyFileFlag

IsStreamDownload(item) ==
    /\ item.Action = ActionDownload
    /\ item.RemoteFile # Nil
    /\ item.RemoteFile.Meta.Flags # EmptyFileFlag

\* C22: the download of an entry flagged EMPTY_FILE never calls DownloadFile;
\* it writes a zero-length file at the path and calls SetModTime with the
\* entry's modification time.
C22_EmptyDownloadLocal ==
    Executing =>
        \A i \in DOMAIN task :
            IsEmptyDownload(TransferTasks[i]) =>
                /\ task[i].calls = 0
                /\ task[i].st # "write"
                /\ task[i].st = "ok" =>
                      /\ localFS[TransferTasks[i].Path] # Nil
                      /\ localFS[TransferTasks[i].Path].Size = 0
                      /\ <<TransferTasks[i].Path,
                            TransferTasks[i].RemoteFile.Meta.ModTime>>
                             \in hist.setModTime

C22_Witness ==
    /\ Executing
    /\ \E i \in DOMAIN task :
          /\ IsEmptyDownload(TransferTasks[i])
          /\ task[i].st = "ok"
          /\ localFS[TransferTasks[i].Path] =
                FileOnDisk("H0", TransferTasks[i].RemoteFile.Meta.ModTime, 0)

\* C28: the download of an entry flagged EMPTY_FILE is attempted once: it
\* is never retried and never waits for a backoff.
C28_EmptyDownloadOnce ==
    Executing =>
        \A i \in DOMAIN task :
            IsEmptyDownload(TransferTasks[i]) =>
                task[i].attempt <= 1 /\ task[i].st # "wait"

\* C29: the download of an entry that is not flagged EMPTY_FILE calls
\* DownloadFile at most five times; a failure that is not a cancellation is
\* retried until five attempts have been made, and a DownloadFile that fails
\* because ctx is done ends the download as cancelled although the error is
\* wrapped.
C29_DownloadRetried ==
    [][\A i \in DOMAIN task \cap DOMAIN task' :
          IsStreamDownload(TransferTasks[i]) =>
              /\ task'[i].calls <= MaxRetries
              /\ task'[i].calls <= task'[i].attempt
              /\ task'[i].attempt <= MaxRetries
              /\ task'[i].st = "error" => task'[i].attempt = MaxRetries
              /\ (GCtxErr /\ task'[i].calls = task[i].calls + 1) =>
                    task'[i].st = "cancelled"]_vars

C29_Witness ==
    /\ Executing
    /\ \E i \in DOMAIN task :
          /\ IsStreamDownload(TransferTasks[i])
          /\ task[i].st = "error"
          /\ task[i].calls = MaxRetries

\* C30: an Upload item calls UploadFile exactly once and is never retried;
\* when the call fails the item fails and so does the transfer phase.
C30_UploadOnce ==
    Executing =>
        \A i \in DOMAIN task :
            LET item == TransferTasks[i] IN
            (item.Action = ActionUpload /\ item.LocalFile # Nil) =>
                /\ task[i].calls <= 1
                /\ task[i].attempt <= 1
                /\ task[i].st # "wait"
                /\ task[i].st \in {"stale", "ok", "error", "cancelled"} =>
                      task[i].calls = 1
                /\ task[i].st \in {"error", "cancelled"} =>
                      /\ groupErr # "none"
                      /\ Returned => result \in {"error", "cancelled"}

C30_Witness ==
    /\ Returned
    /\ \E i \in DOMAIN task :
          /\ TransferTasks[i].Action = ActionUpload
          /\ task[i].st = "error"
          /\ task[i].calls = 1
    /\ result = "error"

\* C23: after the upload of a zero-length local file the store holds, for
\* its path, an entry flagged EMPTY_FILE with a 1-byte blob.
C23_EmptyRoundTrip ==
    Executing =>
        \A i \in DOMAIN task :
            LET item == TransferTasks[i] IN
            /\ item.Action = ActionUpload
            /\ item.LocalFile # Nil
            /\ item.LocalFile.Size = 0
            /\ task[i].st \in {"stale", "ok"}
            => \E m \in store :
                  /\ m.Meta.Path = item.Path
                  /\ m.Meta.Flags = EmptyFileFlag
                  /\ m.Size = 1

\* C33: when plan.summary.total is 0 Execute returns nil at once: no
\* ConfirmSync, no SetTotalFiles, no Wait, no transfer, no deletion, the
\* store and the local tree untouched.
C33_EmptyPlanNoOp ==
    [][(pc = "planned" /\ plan.Summary.Total = 0 /\ pc' # pc) =>
          /\ pc' = "done"
          /\ result' = "nil"
          /\ hist' = hist
          /\ hist.confirm = "none" /\ hist.ui = {} /\ hist.uiWaits = 0
          /\ task' = NoTasks
          /\ store' = store
          /\ localFS' = localFS
          /\ nextMsgID' = nextMsgID]_vars

C33_Witness ==
    /\ pc = "done"
    /\ plan.Summary.Total = 0
    /\ uiWired
    /\ result = "nil"
    /\ hist.confirm = "none"
    /\ DOMAIN invLocal = Paths

\* C34: Execute is neither in its delete phase nor back while a transfer
\* task it started is running; with a progress sink wired in, Wait() has
\* been called once when the delete phase starts, and is called neither
\* before the last task has finished nor when the transfer phase failed.
C34_Barrier ==
    Executing =>
        /\ pc \in {"delete", "done", "applied", "rediffed"} => Active = 0
        /\ hist.uiWaits > 0 => (uiWired /\ Active = 0 /\ groupErr = "none")
        /\ pc \in {"loop", "go", "wait"} => hist.uiWaits = 0
        /\ (uiWired /\ (pc = "delete" \/ PastTransfers)) => hist.uiWaits = 1
        /\ hist.deleted # <<>> => hist.uiWaits = (IF uiWired THEN 1 ELSE 0)

C34_Witness ==
    /\ pc = "delete"
    /\ uiWired
    /\ hist.uiWaits = 1
    /\ Len(hist.deleted) = 1
    /\ \E i \in DOMAIN task : task[i].st = "ok"

----------------------------------------------------------------------------
(* Properties of Execute on any plan, checked under SpecExec *)

\* The item lacks the counterpart its action requires.
MissingCounterpart(item) ==
    \/ item.Action = ActionUpload /\ item.LocalFile = Nil
    \/ item.Action \in {ActionDownload, ActionDeleteRemote} /\ item.RemoteFile = Nil

\* C26: when the plan has an Upload without localFile or a Download without
\* remoteFile, Execute calls neither UploadFile nor DownloadFile, and leaves
\* the store and the local tree as they were.
C26_InvariantErrorBeforeSideEffects ==
    (\E k \in DOMAIN plan.Items :
        /\ plan.Items[k].Action \in {ActionUpload, ActionDownload}
        /\ MissingCounterpart(plan.Items[k]))
    => /\ \A i \in DOMAIN task : task[i].calls = 0
       /\ store = {ExecEntry(p) : p \in Paths}
       /\ localFS = [p \in Paths |-> ExecFile(p)]

\* C27: when the plan has an item without the counterpart its action
\* requires, Execute returns an error.
C27_MissingCounterpartFatal ==
    (pc = "done" /\ \E k \in DOMAIN plan.Items : MissingCounterpart(plan.Items[k]))
    => result # "nil"

\* SetModTime was called for the path of transfer task i, with modTime t.
SetModTimeCalled(i, t) == <<TransferTasks[i].Path, t>> \in hist.setModTime

\* C31: a download that is not of an EMPTY_FILE entry calls SetModTime iff it
\* wrote the file and the entry's modTime is > 0, and with that modTime; a
\* SetModTime that fails, in any download, leaves the item successful and
\* starts no further attempt.
C31_SetModTimeBestEffort ==
    \A i \in DOMAIN task :
        LET item == TransferTasks[i] IN
        (item.Action = ActionDownload /\ item.RemoteFile # Nil) =>
            /\ \A t \in {0, 100, 200, 999} :
                  SetModTimeCalled(i, t) =>
                      /\ t = item.RemoteFile.Meta.ModTime
                      /\ task[i].st = "ok"
            /\ IsStreamDownload(item) =>
                  (SetModTimeCalled(i, item.RemoteFile.Meta.ModTime)
                      <=> (task[i].st = "ok" /\ item.RemoteFile.Meta.ModTime > 0))

C31_Witness ==
    /\ pc = "done" /\ result = "nil"
    /\ \E i, j \in DOMAIN task :
          /\ IsStreamDownload(TransferTasks[i])
          /\ SetModTimeCalled(i, 200)
          /\ localFS[TransferTasks[i].Path].ModTime = 999
          /\ task[i].attempt = 1
          /\ IsStreamDownload(TransferTasks[j])
          /\ TransferTasks[j].RemoteFile.Meta.ModTime = 0
          /\ task[j].st = "ok"
          /\ hist.setModTime = {<<TransferTasks[i].Path, 200>>}

----------------------------------------------------------------------------
(* Properties of the items of a plan, checked under SpecDiff *)

\* plan is the Diff of invLocal and invRemote as they are now.
Planned == pc \in {"planned", "mirrored"}

\* C32: in a plan of DiffPush or DiffPull every Upload and DeleteLocal item
\* has localFile, every Download and DeleteRemote item has remoteFile, an
\* item of a path present on both sides has both and an item of a path
\* present on one side has exactly one; no item lacks the counterpart the
\* executor requires.
C32_CounterpartsSet ==
    Planned =>
        \A it \in ItemsOf(plan) :
            /\ it.Action \in {ActionUpload, ActionDeleteLocal} => it.LocalFile # Nil
            /\ it.Action \in {ActionDownload, ActionDeleteRemote} => it.RemoteFile # Nil
            /\ it.Path \in Both => (it.LocalFile # Nil /\ it.RemoteFile # Nil)
            /\ it.Path \notin Both => ((it.LocalFile = Nil) # (it.RemoteFile = Nil))
            /\ ~MissingCounterpart(it)

C32_Witness ==
    /\ Planned
    /\ \E it \in ItemsOf(plan) :
          it.Action = ActionDownload /\ it.LocalFile # Nil /\ it.RemoteFile # Nil
    /\ \E it \in ItemsOf(plan) :
          it.Action = ActionDeleteLocal /\ it.LocalFile # Nil /\ it.RemoteFile = Nil

\* C39: the localFile and the remoteFile of an item are the entries the two
\* inventories hold under the item's own path.
C39_OwnEntries ==
    Planned =>
        \A it \in ItemsOf(plan) :
            /\ it.LocalFile # Nil =>
                  (it.Path \in DOMAIN invLocal /\ it.LocalFile = invLocal[it.Path])
            /\ it.RemoteFile # Nil =>
                  /\ it.Path \in DOMAIN invRemote
                  /\ it.RemoteFile = invRemote[it.Path]
                  /\ it.RemoteFile.MessageID = invRemote[it.Path].MessageID

C39_Witness ==
    /\ Planned
    /\ \E it1, it2 \in ItemsOf(plan) :
          /\ it1.Path # it2.Path
          /\ it1.Action = ActionDeleteRemote /\ it2.Action = ActionDeleteRemote
          /\ it1.RemoteFile.MessageID # it2.RemoteFile.MessageID

----------------------------------------------------------------------------
(* Properties of the Scanner, checked under SpecScan *)

Scanned == pc \in {"scanned", "planned"}

\* The path is the scope, or lies under the directory the scope names.
InScope(S, path) ==
    \/ S = <<>>
    \/ path = S
    \/ \E k \in 1..Len(path) : SubSeq(path, 1, k) = S \o <<"/">>

\* S is the argument a without its leading and trailing slashes.
IsTrimOf(S, a) ==
    /\ S # <<>> => (S[1] # "/" /\ S[Len(S)] # "/")
    /\ \E i, j \in 0..Len(a) :
          /\ i + Len(S) + j = Len(a)
          /\ SubSeq(a, i + 1, i + Len(S)) = S
          /\ \A k \in (1..i) \cup ((Len(a) - j + 1)..Len(a)) : a[k] = "/"

NormPath(path) == [k \in 1..Len(path) |-> IF path[k] = scanner.sep THEN "/" ELSE path[k]]

\* C24: the scanner's scope S is its argument without leading and trailing
\* slashes; ScanLocal and ScanRemote retain exactly the entries whose
\* normalized path is S or starts with S + "/", all of them when S is empty;
\* and every item of the plan built from the two scans has a path in scope.
C24_ScopeFiltering ==
    Scanned =>
        /\ IsTrimOf(scanner.subDir, NormPath(scanner.subDirArg))
        /\ DOMAIN invLocal =
              {NormPath(scanner.files[k].Path) : k \in
                  {j \in DOMAIN scanner.files :
                      InScope(scanner.subDir, NormPath(scanner.files[j].Path))}}
        /\ DOMAIN invRemote =
              {NormPath(scanner.listing[k].Meta.Path) : k \in
                  {j \in DOMAIN scanner.listing :
                      InScope(scanner.subDir, NormPath(scanner.listing[j].Meta.Path))}}
        /\ pc = "planned" =>
              \A k \in DOMAIN plan.Items : InScope(scanner.subDir, plan.Items[k].Path)

C24_Witness ==
    /\ pc = "planned"
    /\ scanner.subDir = <<"a">>
    /\ scanner.subDirArg # scanner.subDir
    /\ \E k \in DOMAIN scanner.files : scanner.files[k].Path = <<"a", "b", "/", "x">>
    /\ \E k \in DOMAIN scanner.listing :
          scanner.listing[k].Meta.Path = <<"a", "b", "/", "x">>
    /\ <<"a", "/", "x">> \in DOMAIN invLocal
    /\ <<"a">> \in DOMAIN invRemote
    /\ Len(plan.Items) = 2

\* C25: when the listing has several in-scope entries with the same path,
\* ScanRemote maps the path to the one that comes first in the listing.
C25_RemoteDedupKeepsFirst ==
    Scanned =>
        \A p \in DOMAIN invRemote :
            LET same == {k \in DOMAIN scanner.listing :
                            NormPath(scanner.listing[k].Meta.Path) = p}
                first == CHOOSE k \in same : \A j \in same : k <= j
            IN  invRemote[p] = scanner.listing[first]

C25_Witness ==
    /\ Scanned
    /\ scanner.subDir # <<>>
    /\ \E j, k \in DOMAIN scanner.listing :
          /\ j < k
          /\ scanner.listing[j].Meta.Path = scanner.listing[k].Meta.Path
          /\ scanner.listing[j].Meta.Path \in DOMAIN invRemote
          /\ invRemote[scanner.listing[j].Meta.Path] = scanner.listing[j]
          /\ scanner.listing[j] # scanner.listing[k]

\* C35: ScanLocal calls EnsureDir before ListFiles; when EnsureDir fails
\* ListFiles is not called; a scan that returns an error returns no
\* inventory, and a scan that returns no error returns one.
C35_ScanErrors ==
    pc # "start" =>
        LET l == scanner.localRet
            r == scanner.remoteRet
        IN  /\ l.calls \in {<<"EnsureDir">>, <<"EnsureDir", "ListFiles">>}
            /\ l.err = "failed to ensure root dir" <=> l.calls = <<"EnsureDir">>
            /\ l.err # "nil" <=> l.inv = Nil
            /\ r.calls = <<"ListFiles">>
            /\ r.err # "nil" <=> r.inv = Nil
            /\ pc = "scanfailed" <=> (l.err # "nil" \/ r.err # "nil")
            /\ pc = "scanfailed" => (invLocal = <<>> /\ invRemote = <<>>)

C35_Witness ==
    /\ pc = "scanfailed"
    /\ scanner.localRet.err = "failed to ensure root dir"
    /\ scanner.localRet.calls = <<"EnsureDir">>
    /\ scanner.files # <<>>
    /\ scanner.remoteRet.err = "failed to list remote files"
    /\ scanner.listing # <<>>

\* C37: every run of Execute terminates when its collaborators return and
\* its waits end: no task makes more than 5 attempts, the loop over
\* deleteTasks visits each delete item once, and Execute returns nil, the
\* cancellation or the error of a transfer.
C37_Terminates ==
    /\ [](\A i \in DOMAIN task : task[i].attempt <= MaxRetries)
    /\ [](/\ deleteIdx <= Len(DeleteTasks) + 1
          /\ Len(hist.deleted) = deleteIdx - 1
          /\ \A k \in DOMAIN hist.deleted : hist.deleted[k] = DeleteTasks[k].Path)
    /\ <>(pc = "done" /\ result \in {"nil", "cancelled", "error"})

C37_Witness ==
    /\ pc = "done"
    /\ result = "error"
    /\ \E i \in DOMAIN task : task[i].st = "error" /\ task[i].attempt = MaxRetries
    /\ \E i \in DOMAIN task : task[i].st = "cancelled"

----------------------------------------------------------------------------
(* Properties of WithRetry, checked under SpecRetry *)

InRetry == retry.pc # "idle"

\* Index of op's first successful invocation, maxRetries + 1 when it has none
\* within maxRetries invocations.
FirstSuccess ==
    LET ok == {i \in DOMAIN retry.script : retry.script[i] = OpNil}
    IN  IF ok = {} THEN retry.maxRetries + 1
        ELSE CHOOSE i \in ok : \A j \in ok : i <= j

Expected == IF FirstSuccess <= retry.maxRetries THEN FirstSuccess ELSE retry.maxRetries

\* An error of the cancellation class: context.Canceled,
\* context.DeadlineExceeded, or an error wrapping one of them.
CancellationClass(err) == err.kind \in {"Canceled", "DeadlineExceeded"}

\* Neither ctx nor a cancellation error of op cuts the run short.
Undisturbed ==
    /\ retry.ctxErr = "none"
    /\ \A i \in 1..Expected : ~CancellationClass(retry.script[i])

\* C17: for maxRetries >= 0, op is invoked min(k, maxRetries) times, k the
\* index of its first success: a success within maxRetries returns nil at
\* once; an op that always fails is invoked maxRetries times, a wrapped error
\* is returned and no wait follows the last failure.
C17_InvocationCount ==
    (InRetry /\ retry.maxRetries >= 0) =>
        /\ retry.calls <= Expected
        /\ (retry.pc = "done" /\ Undisturbed) =>
              /\ retry.calls = Expected
              /\ IF FirstSuccess <= retry.maxRetries
                 THEN retry.ret = [kind |-> "nil"]
                 ELSE /\ retry.ret.kind = "wrapped"
                      /\ retry.ret.attempts = retry.maxRetries
                      /\ retry.ret.err = retry.lastErr
              /\ retry.maxRetries > 0 =>
                    (Len(retry.waits) = Expected - 1 /\ retry.waited = Expected - 1)

\* Failing on attempts 1-4 and succeeding on attempt 5 of 5.
C17_Witness ==
    /\ InRetry /\ retry.pc = "done"
    /\ retry.maxRetries = 5
    /\ FirstSuccess = 5
    /\ retry.calls = 5
    /\ retry.ret = [kind |-> "nil"]

\* C18: when op returns an error that is or wraps context.Canceled or
\* context.DeadlineExceeded on attempt j, attempt j is the last invocation,
\* no wait follows and that error is returned.
C18_CancellationShortCircuit ==
    InRetry =>
        \A j \in 1..retry.calls :
            CancellationClass(retry.script[j]) =>
                /\ retry.calls = j
                /\ Len(retry.waits) = j - 1
                /\ retry.pc = "done"
                /\ retry.ret = [kind |-> "err", err |-> retry.script[j]]

C18_Witness ==
    /\ InRetry /\ retry.pc = "done"
    /\ retry.maxRetries = MaxAttempts
    /\ retry.script[1].kind = "DeadlineExceeded" /\ retry.script[1].wrapped
    /\ retry.calls = 1
    /\ retry.ret.kind = "err"

\* C19: when ctx is done during the wait before attempt k, WithRetry returns
\* ctx.Err() and op is invoked neither for attempt k nor later.
C19_WaitCancellable ==
    (InRetry /\ retry.cancelAt > 0) =>
        /\ retry.calls = retry.cancelAt - 1
        /\ retry.pc \in {"select", "done"}
        /\ retry.pc = "done" => retry.ret = [kind |-> "ctx", err |-> retry.ctxErr]

C19_Witness ==
    /\ InRetry /\ retry.pc = "done"
    /\ retry.cancelAt = 3
    /\ retry.calls = 2
    /\ retry.ret.kind = "ctx"

C38_NoAttemptsIsError ==
    (InRetry /\ retry.maxRetries <= 0) =>
        /\ retry.calls = 0
        /\ retry.pc \in {"loop", "done"}
        /\ retry.pc = "done" =>
              retry.ret = [kind |-> "wrapped", attempts |-> retry.maxRetries,
                           err |-> OpNil]

C38_Witness ==
    /\ InRetry /\ retry.pc = "done"
    /\ retry.maxRetries = -1
    /\ retry.calls = 0
    /\ retry.ret.kind = "wrapped"

----------------------------------------------------------------------------
(* SpecPush: one call of Synchronizer.Push. Its upload tasks are closures   *)
(* that assign the variable err declared by Push itself; the steps of a    *)
(* task (the call of UploadFile with its assignment, the test of err, the  *)
(* deletion of the old version) interleave with the steps of the others.   *)

NewSynchronizer(n) == IF n <= 0 THEN 1 ELSE n

\* remoteMap[f.Meta.Path] = f over the listing: the last entry of a path stays.
RECURSIVE PushRemoteMap(_, _)
PushRemoteMap(listing, acc) ==
    IF listing = <<>> THEN acc
    ELSE PushRemoteMap(Tail(listing),
                       Put(acc, Head(listing).Meta.Path, Head(listing)))

\* Push's comparison of a path present on both sides.
PushShouldUpdate(skip, localFile, remoteFile) ==
    IF skip
    THEN remoteFile.Meta.ModTime # localFile.ModTime \/ remoteFile.Size # localFile.Size
    ELSE remoteFile.Meta.Checksum # localFile.Checksum

PushToUpload(local, remote) == DOMAIN local \ DOMAIN remote

PushToUpdate(skip, local, remote) ==
    {p \in DOMAIN local \cap DOMAIN remote : PushShouldUpdate(skip, local[p], remote[p])}

PushToDelete(local, remote) == DOMAIN remote \ DOMAIN local

\* One closure given to g.Go: st is its position, own what its own call of
\* UploadFile returned, ret what the closure returned.
PushTask(path) == [path |-> path, st |-> "go", own |-> "none", ret |-> "none"]

PushActive == Cardinality({i \in DOMAIN push.tasks : push.tasks[i].st \in {"upload", "check", "delete"}})

\* DeleteFile by message id.
DeleteMessages(msgs, ids) == {m \in msgs : m.MessageID \notin ids}

InitPush ==
    /\ push = [err |-> "nil", tasks |-> <<>>, updateMap |-> <<>>, toDelete |-> {},
               oldDeleteCalled |-> {}]
    /\ scanner = NoScanner
    /\ retry = NoRetry
    /\ workersArg \in -1..MaxWorkers
    /\ workers = NewSynchronizer(workersArg)
    /\ mode = "push"
    /\ skipMD5 \in BOOLEAN
    /\ uiWired \in BOOLEAN
    /\ \E tree \in Trees :
          /\ localFS = [p \in Paths |-> tree[p].disk]
          /\ store = UNION {tree[p].msgs : p \in Paths}
    /\ nextMsgID = 2 * NumPaths + 1
    /\ invLocal = <<>>
    /\ invRemote = <<>>
    /\ plan = EmptyPlan
    /\ plan2 = EmptyPlan
    /\ pc = "start"
    /\ nextTask = 1
    /\ task = NoTasks
    /\ deleteIdx = 1
    /\ callerCancelled = FALSE
    /\ groupErr = "none"
    /\ result = "none"
    /\ hist = NoHist

\* Push up to the loop over allTasks: the two listings, the plan, the early
\* return when there is nothing to do.
PushBegin ==
    /\ pc = "start"
    /\ \E localErr, remoteErr \in {"nil", "error"} :
          IF localErr # "nil"
          THEN /\ push' = [push EXCEPT !.err = localErr]
               /\ result' = "error" /\ pc' = "done"
               /\ UNCHANGED <<invLocal, invRemote>>
          ELSE IF remoteErr # "nil"
          THEN /\ push' = [push EXCEPT !.err = remoteErr]
               /\ result' = "error" /\ pc' = "done"
               /\ invLocal' = ScanLocal(localFS)
               /\ invRemote' = invRemote
          ELSE LET local == ScanLocal(localFS)
                   remote == PushRemoteMap(Listing(store), <<>>)
                   toUpload == PushToUpload(local, remote)
                   toUpdate == PushToUpdate(skipMD5, local, remote)
                   toDelete == PushToDelete(local, remote)
               IN  /\ invLocal' = local
                   /\ invRemote' = remote
                   /\ IF toUpload \cup toUpdate \cup toDelete = {}
                      THEN /\ push' = [push EXCEPT !.err = "nil"]
                           /\ result' = "nil" /\ pc' = "done"
                      ELSE /\ \E o1 \in Orders(toUpload), o2 \in Orders(toUpdate) :
                                push' = [push EXCEPT
                                           !.err = "nil",
                                           !.tasks = [i \in 1..Len(o1 \o o2) |->
                                                         PushTask((o1 \o o2)[i])],
                                           !.updateMap = [p \in toUpdate |-> remote[p]],
                                           !.toDelete = toDelete]
                           /\ result' = result /\ pc' = "upload"
    /\ UNCHANGED <<scanner, retry, workersArg, mode, skipMD5, workers, uiWired,
                   localFS, store, nextMsgID, plan, plan2, nextTask, task,
                   deleteIdx, callerCancelled, groupErr, hist>>

\* g.Go: the next closure starts when fewer than s.workers are running.
PushGo ==
    /\ pc = "upload"
    /\ \E i \in DOMAIN push.tasks :
          /\ push.tasks[i].st = "go"
          /\ \A j \in 1..(i - 1) : push.tasks[j].st # "go"
          /\ PushActive < workers
          /\ push' = [push EXCEPT !.tasks[i].st = "upload"]
    /\ UNCHANGED <<scanner, retry, workersArg, mode, skipMD5, workers, uiWired,
                   localFS, store, nextMsgID, invLocal, invRemote, plan, plan2,
                   pc, nextTask, task, deleteIdx, callerCancelled, groupErr,
                   result, hist>>

\* err = s.storage.UploadFile(gCtx, ...): the call, and the assignment of
\* what it returned to the err of Push.
PushUploadFile(i) ==
    /\ pc = "upload"
    /\ push.tasks[i].st = "upload"
    /\ \E e \in (IF groupErr # "none" THEN {"error"} ELSE {"nil", "error"}) :
          /\ push' = [push EXCEPT !.err = e, !.tasks[i].st = "check",
                                  !.tasks[i].own = e]
          /\ IF e = "nil"
             THEN /\ store' = store \cup
                                {UploadedEntry(invLocal[push.tasks[i].path], nextMsgID)}
                  /\ nextMsgID' = nextMsgID + 1
             ELSE UNCHANGED <<store, nextMsgID>>
    /\ UNCHANGED <<scanner, retry, workersArg, mode, skipMD5, workers, uiWired,
                   localFS, invLocal, invRemote, plan, plan2, pc, nextTask, task,
                   deleteIdx, callerCancelled, groupErr, result, hist>>

\* if err != nil { return fmt.Errorf(...) }: the closure reads the err of
\* Push, which holds what the latest assignment of any closure left there.
PushCheck(i) ==
    /\ pc = "upload"
    /\ push.tasks[i].st = "check"
    /\ IF push.err # "nil"
       THEN /\ push' = [push EXCEPT !.tasks[i].st = "done", !.tasks[i].ret = "error"]
            /\ groupErr' = IF groupErr = "none" THEN "error" ELSE groupErr
       ELSE /\ push' = [push EXCEPT
                          !.tasks[i].st = IF push.tasks[i].path \in DOMAIN push.updateMap
                                          THEN "delete" ELSE "done",
                          !.tasks[i].ret = IF push.tasks[i].path \in DOMAIN push.updateMap
                                           THEN "none" ELSE "nil"]
            /\ groupErr' = groupErr
    /\ UNCHANGED <<scanner, retry, workersArg, mode, skipMD5, workers, uiWired,
                   localFS, store, nextMsgID, invLocal, invRemote, plan, plan2,
                   pc, nextTask, task, deleteIdx, callerCancelled, result, hist>>

\* The old version of an updated path: DeleteFile(gCtx, ...), whose error is
\* only logged; the closure returns nil.
PushDeleteOld(i) ==
    /\ pc = "upload"
    /\ push.tasks[i].st = "delete"
    /\ \E ok \in (IF groupErr # "none" THEN {FALSE} ELSE BOOLEAN) :
          store' = IF ok
                   THEN DeleteMessages(store,
                                       {push.updateMap[push.tasks[i].path].MessageID})
                   ELSE store
    /\ push' = [push EXCEPT !.tasks[i].st = "done", !.tasks[i].ret = "nil",
                            !.oldDeleteCalled = @ \cup {push.tasks[i].path}]
    /\ UNCHANGED <<scanner, retry, workersArg, mode, skipMD5, workers, uiWired,
                   localFS, nextMsgID, invLocal, invRemote, plan, plan2, pc,
                   nextTask, task, deleteIdx, callerCancelled, groupErr, result,
                   hist>>

\* g.Wait, then reporter.Wait.
PushWait ==
    /\ pc = "upload"
    /\ \A i \in DOMAIN push.tasks : push.tasks[i].st = "done"
    /\ IF groupErr # "none"
       THEN result' = "error" /\ pc' = "done" /\ hist' = hist
       ELSE /\ result' = result
            /\ pc' = "prune"
            /\ hist' = [hist EXCEPT !.uiWaits = IF uiWired THEN @ + 1 ELSE @]
    /\ UNCHANGED <<push, scanner, retry, workersArg, mode, skipMD5, workers, uiWired,
                   localFS, store, nextMsgID, invLocal, invRemote, plan, plan2,
                   nextTask, task, deleteIdx, callerCancelled, groupErr>>

\* Pruning: DeleteFile(ctx, ...) for each path of toDelete; an error is only
\* logged.
PushPrune ==
    /\ pc = "prune"
    /\ \E failed \in SUBSET push.toDelete :
          store' = DeleteMessages(store,
                                  {invRemote[p].MessageID : p \in push.toDelete \ failed})
    /\ result' = "nil"
    /\ pc' = "done"
    /\ UNCHANGED <<push, scanner, retry, workersArg, mode, skipMD5, workers, uiWired,
                   localFS, nextMsgID, invLocal, invRemote, plan, plan2,
                   nextTask, task, deleteIdx, callerCancelled, groupErr, hist>>

NextPush ==
    \/ PushBegin
    \/ PushGo
    \/ \E i \in DOMAIN push.tasks : PushUploadFile(i)
    \/ \E i \in DOMAIN push.tasks : PushCheck(i)
    \/ \E i \in DOMAIN push.tasks : PushDeleteOld(i)
    \/ PushWait
    \/ PushPrune

SpecPush == InitPush /\ [][NextPush]_vars

----------------------------------------------------------------------------
(* Properties of Synchronizer.Push, checked under SpecPush *)

\* C36: the outcome of an upload task of Push depends only on its own call
\* of UploadFile: a task whose UploadFile failed returns an error and Push
\* returns non-nil, and the old version of an updated path is deleted only
\* when the upload of that path succeeded.
C36_TaskOutcomeIsOwn ==
    /\ \A i \in DOMAIN push.tasks :
          LET t == push.tasks[i]
          IN  /\ (t.st = "done" /\ t.own = "error") => t.ret = "error"
              /\ t.path \in push.oldDeleteCalled => t.own = "nil"
    /\ (pc = "done" /\ \E i \in DOMAIN push.tasks : push.tasks[i].own = "error")
          => result = "error"

====
